---- MODULE Spec2Model ----
(***************************************************************************)
(* Reconfiguration engine of the modular robot: connection graph,          *)
(* kinematic compiler, constraint-mode pose propagation, feasibility       *)
(* checker, local attach solver (outcome abstraction) and the attach /     *)
(* detach transaction of connection_api.attempt_attach and                 *)
(* event_applier.apply_event.                                              *)
(*                                                                         *)
(* Geometry.  A rigid transform is restricted to the subgroup generated by *)
(* rotations about Z by multiples of 45 degrees, the 180 degree flip about *)
(* Y and translations along Z.  A transform is [k, f, z]: the rotation     *)
(* Rz(45*k) . Ry(180)^f and the translation (0, 0, z) in millimetres.      *)
(* In this subgroup the numpy matrix products of the source are exact.     *)
(* z_dot is scaled by 1000 (so -0.999 is -999); lengths are millimetres    *)
(* (so 1e-3 m is 1, 0.01 m is 10, 0.1 m is 100, 1.0 m is 1000).            *)
(***************************************************************************)
EXTENDS Integers, Sequences, FiniteSets, TLC

VARIABLES edges, T_world, q_by_module, root_id, steps, last, context, trace, callers, lock

vars == <<edges, T_world, q_by_module, root_id, steps, last, context, trace, callers, lock>>

\* ------------------------------------------------------------------ bounds
MaxSteps == 3

\* calls of graph.apply in a run that builds a graph for the compiler
MaxGraphSteps == 4

\* ------------------------------------------------------------ identifiers
\* a missing yaw snap (yaw_snap_deg = None) and a missing transform (T_a_b = None)
None == -1

NoneT == [k |-> -1, f |-> 0, z |-> 0]

Modules == {1, 2, 4}

\* module ids named literally by the special cases of attempt_attach
HackIds == {1, 2, 3}

Halves == {"ma", "mb"}

\* connector sites carried by each half
SitesOfHalf(h) == IF h = "ma" THEN {"right"} ELSE {"left"}

SiteRefs == {[module_id |-> m, half |-> h, site |-> s] :
                m \in Modules, h \in Halves, s \in {"right", "left"}}
            \ {r \in [module_id : Modules, half : Halves, site : {"right", "left"}] :
                    r.site \notin SitesOfHalf(r.half)}

\* Python string order of the half and site names used
HalfRank(h) == IF h = "ma" THEN 0 ELSE 1

SiteRank(s) == CASE s = "bottom" -> 0 [] s = "left" -> 1 [] s = "right" -> 2 [] OTHER -> 3

\* (module_id, half, site) tuple comparison: key_a < key_b
TupleLess(s, t) ==
    \/ s.module_id < t.module_id
    \/ s.module_id = t.module_id /\ HalfRank(s.half) < HalfRank(t.half)
    \/ s.module_id = t.module_id /\ s.half = t.half /\ SiteRank(s.site) < SiteRank(t.site)

\* EdgeKey.normalized: the smaller endpoint first; on a tie (a = b) the
\* else branch stores (b_end, a_start)
normalized(a_start, b_end) ==
    IF TupleLess(a_start, b_end) THEN [a |-> a_start, b |-> b_end]
                                 ELSE [a |-> b_end, b |-> a_start]

\* EdgeKey(a, b) constructed directly, endpoints in the order given
EdgeKey(a, b) == [a |-> a, b |-> b]

\* EdgeKey.__hash__: the hash of the pair of endpoint tuples, smaller first;
\* the pair stands for its hash
EdgeKeyHash(k) ==
    IF TupleLess(k.a, k.b) THEN <<k.a, k.b>> ELSE <<k.b, k.a>>

\* the field-wise __eq__ a dataclass generates: endpoints compared in order
KeyEq_fieldwise(k1, k2) ==
    k1.a = k2.a /\ k1.b = k2.b

\* EdgeKey.__eq__: symmetric in the endpoints
KeyEq(k1, k2) ==
    \/ k1.a = k2.a /\ k1.b = k2.b
    \/ k1.a = k2.b /\ k1.b = k2.a

\* ---------------------------------------------------------------- geometry
HalfLen == 300

Sgn(f) == IF f = 0 THEN 1 ELSE -1

Mod8(n) == n % 8

\* T1 @ T2
Compose(T1, T2) ==
    [k |-> Mod8(T1.k + Sgn(T1.f) * T2.k),
     f |-> (T1.f + T2.f) % 2,
     z |-> T1.z + Sgn(T1.f) * T2.z]

\* np.linalg.inv(T)
Inv(T) ==
    [k |-> Mod8(0 - Sgn(T.f) * T.k),
     f |-> T.f,
     z |-> 0 - Sgn(T.f) * T.z]

\* np.eye(4)
IdT == [k |-> 0, f |-> 0, z |-> 0]

\* rotz(deg) and roty(180) as transforms with zero translation
RotZ(deg) == [k |-> Mod8(deg \div 45), f |-> 0, z |-> 0]

RotY180 == [k |-> 0, f |-> 1, z |-> 0]

\* site frames in the half frames (site_T_half): the A-half connector at
\* +HalfLen with outward normal +Z, the B-half connector at -HalfLen with
\* outward normal -Z
site_T_half(half) ==
    IF half = "ma" THEN [k |-> 0, f |-> 0, z |-> HalfLen]
                   ELSE [k |-> 0, f |-> 1, z |-> 0 - HalfLen]

\* hinge_T about the module axis at the module origin; q is in units of 45 deg
hinge_T(q) == [k |-> Mod8(q), f |-> 0, z |-> 0]

\* UBotKinematics.T_ax_site(q, site_name), q = <<q_ma, q_mb>>
T_ax_site(q, s) ==
    Compose(hinge_T(IF s.half = "ma" THEN q[1] ELSE q[2]), site_T_half(s.half))

\* the KeyError raised by executor.T_world[module_id] or
\* executor.q_by_module[module_id] for a module id that is not a key
KeyError(m) == "KeyError: " \o ToString(m)

\* the module of site s is missing from the pose table or the joint table
Missing(Tw, qs, s) == s.module_id \notin DOMAIN Tw \/ s.module_id \notin DOMAIN qs

\* get_site_Tw(executor, module_id, site_name)
get_site_Tw(Tw, qs, s) == Compose(Tw[s.module_id], T_ax_site(qs[s.module_id], s))

Abs(n) == IF n < 0 THEN 0 - n ELSE n

\* arctan2 result in degrees for an angle of 45*k degrees: (-180, 180]
Norm180(k) == IF Mod8(k) > 4 THEN 45 * Mod8(k) - 360 ELSE 45 * Mod8(k)

\* compute_rel_yaw_deg(R_parent, R_child): signed angle of the child y axis
\* about the parent z axis
compute_rel_yaw_deg(Rp, Rc) == Norm180(Compose(Inv(Rp), Rc).k)

\* compute_constraint_metrics(Tw_parent_site, Tw_child_site, yaw_snap_deg)
compute_constraint_metrics(Tp, Tc, yaw_snap_deg) ==
    LET R_c_flip    == Compose(Tc, RotY180)
        R_c_aligned == Compose(R_c_flip, RotZ(360 - yaw_snap_deg))
    IN  [pos_err     |-> Abs(Tp.z - Tc.z),
         z_dot       |-> IF Tp.f = Tc.f THEN 1000 ELSE -1000,
         rel_yaw_deg |-> compute_rel_yaw_deg(Tp, R_c_aligned)]

\* ---------------------------------------------------------- ConnectionGraph
\* ConnectionGraph.edges is a dict: a sequence of records in insertion order
\* of their keys, [key, yaw_snap_deg, T_a_b, active]

\* active_edges(): the active records in dict order
\* active_edges() without the filter on the active flag
active_edges_all(E) == E

active_edges(E) == SelectSeq(E, LAMBDA e : e.active)

\* site_is_free(site) that compares the site with endpoint a of each active
\* edge only
site_is_free_a_only(E, site) ==
    \A i \in 1..Len(E) : E[i].active => E[i].key.a # site

\* site_is_free(site)
site_is_free(E, site) ==
    \A i \in 1..Len(E) : E[i].active => (E[i].key.a # site /\ E[i].key.b # site)

\* position of a key in the dict, 0 when absent
KeyIndex(E, key) ==
    IF \E i \in 1..Len(E) : KeyEq(E[i].key, key)
    THEN CHOOSE i \in 1..Len(E) : KeyEq(E[i].key, key)
    ELSE 0

\* is_connected(a, b)
is_connected(E, a, b) ==
    LET i == KeyIndex(E, normalized(a, b)) IN i # 0 /\ E[i].active

\* an assignment that re-activates the record already stored under the key
\* and drops the fields of the new edge
DictSet_keep_stored(E, edge) ==
    IF KeyIndex(E, edge.key) = 0 THEN Append(E, edge)
    ELSE [E EXCEPT ![KeyIndex(E, edge.key)].active = TRUE]

\* self.edges[edge.key] = edge: an existing key keeps its place in the dict
DictSet(E, edge) ==
    LET i == KeyIndex(E, edge.key)
    IN  IF i = 0 THEN Append(E, edge) ELSE [E EXCEPT ![i] = edge]

\* apply(ev) that leaves the occupancy of site b unchecked
apply_unchecked_b(E, ev) ==
    IF ev.kind = "attach" THEN
        IF ev.yaw_snap_deg = None \/ ev.T_a_b = NoneT
            THEN [edges |-> E, raised |-> "ValueError"]
        ELSE IF ~site_is_free(E, ev.a)
            THEN [edges |-> E, raised |-> "ValueError"]
        ELSE [edges |-> DictSet(E, [key          |-> normalized(ev.a, ev.b),
                                    yaw_snap_deg |-> ev.yaw_snap_deg,
                                    T_a_b        |-> ev.T_a_b,
                                    active       |-> TRUE]),
              raised |-> ""]
    ELSE
        LET i == KeyIndex(E, normalized(ev.a, ev.b))
        IN  IF i # 0 /\ E[i].active
                THEN [edges |-> [E EXCEPT ![i].active = FALSE], raised |-> ""]
                ELSE [edges |-> E, raised |-> ""]

\* apply(ev) without the test for a missing yaw snap or transform
apply_no_field_check(E, ev) ==
    IF ev.kind = "attach" THEN
        IF ~site_is_free(E, ev.a)
            THEN [edges |-> E, raised |-> "ValueError"]
        ELSE IF ~site_is_free(E, ev.b)
            THEN [edges |-> E, raised |-> "ValueError"]
        ELSE [edges |-> DictSet(E, [key          |-> normalized(ev.a, ev.b),
                                    yaw_snap_deg |-> ev.yaw_snap_deg,
                                    T_a_b        |-> ev.T_a_b,
                                    active       |-> TRUE]),
              raised |-> ""]
    ELSE
        LET i == KeyIndex(E, normalized(ev.a, ev.b))
        IN  IF i # 0 /\ E[i].active
                THEN [edges |-> [E EXCEPT ![i].active = FALSE], raised |-> ""]
                ELSE [edges |-> E, raised |-> ""]

\* apply(ev) whose detach indexes the dict without the membership test, so
\* that a key that is absent raises KeyError
apply_detach_unguarded(E, ev) ==
    IF ev.kind = "attach" THEN
        IF ev.yaw_snap_deg = None \/ ev.T_a_b = NoneT
            THEN [edges |-> E, raised |-> "ValueError"]
        ELSE IF ~site_is_free(E, ev.a)
            THEN [edges |-> E, raised |-> "ValueError"]
        ELSE IF ~site_is_free(E, ev.b)
            THEN [edges |-> E, raised |-> "ValueError"]
        ELSE [edges |-> DictSet(E, [key          |-> normalized(ev.a, ev.b),
                                    yaw_snap_deg |-> ev.yaw_snap_deg,
                                    T_a_b        |-> ev.T_a_b,
                                    active       |-> TRUE]),
              raised |-> ""]
    ELSE
        LET i == KeyIndex(E, normalized(ev.a, ev.b))
        IN  IF i = 0
                THEN [edges |-> E, raised |-> "KeyError"]
                ELSE [edges |-> [E EXCEPT ![i].active = FALSE], raised |-> ""]

\* ConnectionGraph.apply(ev): the new dict and the exception raised, if any
apply(E, ev) ==
    IF ev.kind = "attach" THEN
        IF ev.yaw_snap_deg = None \/ ev.T_a_b = NoneT
            THEN [edges |-> E, raised |-> "ValueError"]
        ELSE IF ~site_is_free(E, ev.a)
            THEN [edges |-> E, raised |-> "ValueError"]
        ELSE IF ~site_is_free(E, ev.b)
            THEN [edges |-> E, raised |-> "ValueError"]
        ELSE [edges |-> DictSet(E, [key          |-> normalized(ev.a, ev.b),
                                    yaw_snap_deg |-> ev.yaw_snap_deg,
                                    T_a_b        |-> ev.T_a_b,
                                    active       |-> TRUE]),
              raised |-> ""]
    ELSE
        LET i == KeyIndex(E, normalized(ev.a, ev.b))
        IN  IF i # 0 /\ E[i].active
                THEN [edges |-> [E EXCEPT ![i].active = FALSE], raised |-> ""]
                ELSE [edges |-> E, raised |-> ""]

AttachEvent(a, b, yaw, T) ==
    [kind |-> "attach", a |-> a, b |-> b, yaw_snap_deg |-> yaw, T_a_b |-> T]

DetachEvent(a, b) ==
    [kind |-> "detach", a |-> a, b |-> b, yaw_snap_deg |-> None, T_a_b |-> NoneT]

\* ------------------------------------------------------- kinematic compiler
\* sorted(S) for a set of module ids
RECURSIVE SortedSeq(_)
\* the neighbours in descending order
RECURSIVE SortedSeq_desc(_)
SortedSeq_desc(S) ==
    IF S = {} THEN <<>>
    ELSE LET m == CHOOSE x \in S : \A y \in S : x >= y
         IN  <<m>> \o SortedSeq_desc(S \ {m})

SortedSeq(S) ==
    IF S = {} THEN <<>>
    ELSE LET m == CHOOSE x \in S : \A y \in S : x <= y
         IN  <<m>> \o SortedSeq(S \ {m})

\* adj filled in one direction only: from the module of endpoint a of an
\* active edge to the module of endpoint b
Adj_one_way(E, u) ==
    {E[i].key.b.module_id : i \in {j \in 1..Len(E) : E[j].active /\ E[j].key.a.module_id = u}}

\* adj[u]: modules joined to u by an active edge
Adj(E, u) ==
    {E[i].key.b.module_id : i \in {j \in 1..Len(E) : E[j].active /\ E[j].key.a.module_id = u}}
    \cup
    {E[i].key.a.module_id : i \in {j \in 1..Len(E) : E[j].active /\ E[j].key.b.module_id = u}}

\* edge_map[tuple(sorted([u, v]))]: the last active edge, in dict order,
\* joining modules u and v
EdgeMap(E, u, v) ==
    LET idx == {i \in 1..Len(E) : E[i].active /\
                   {E[i].key.a.module_id, E[i].key.b.module_id} = {u, v}}
    IN  E[CHOOSE i \in idx : \A j \in idx : j <= i]

\* the attachment with the stored transform taken as it is in both directions
Attachment_no_inverse(E, u, v) ==
    LET edge == EdgeMap(E, u, v)
    IN  IF u = edge.key.a.module_id
        THEN [parent |-> u, child |-> v,
              parent_site |-> edge.key.a, child_site |-> edge.key.b,
              T_parent_child |-> edge.T_a_b, yaw_snap_deg |-> edge.yaw_snap_deg]
        ELSE [parent |-> u, child |-> v,
              parent_site |-> edge.key.b, child_site |-> edge.key.a,
              T_parent_child |-> edge.T_a_b, yaw_snap_deg |-> edge.yaw_snap_deg]

\* the KinematicAttachment recorded when v is first reached from u
Attachment(E, u, v) ==
    LET edge == EdgeMap(E, u, v)
    IN  IF u = edge.key.a.module_id
        THEN [parent |-> u, child |-> v,
              parent_site |-> edge.key.a, child_site |-> edge.key.b,
              T_parent_child |-> edge.T_a_b, yaw_snap_deg |-> edge.yaw_snap_deg]
        ELSE [parent |-> u, child |-> v,
              parent_site |-> edge.key.b, child_site |-> edge.key.a,
              T_parent_child |-> Inv(edge.T_a_b), yaw_snap_deg |-> edge.yaw_snap_deg]

\* the for loop over the sorted neighbours of u
RECURSIVE VisitNeighbours(_, _, _, _)
VisitNeighbours(E, u, nbrs, st) ==
    IF nbrs = <<>> THEN st
    ELSE LET v == Head(nbrs)
         IN  IF v \in st.visited
             THEN VisitNeighbours(E, u, Tail(nbrs), st)
             ELSE VisitNeighbours(E, u, Tail(nbrs),
                    [visited     |-> st.visited \cup {v},
                     order       |-> Append(st.order, v),
                     parent_of   |-> (v :> u) @@ st.parent_of,
                     attachments |-> (v :> Attachment(E, u, v)) @@ st.attachments,
                     queue       |-> Append(st.queue, v)])

\* the while loop over the queue
RECURSIVE BfsLoop(_, _)
BfsLoop(E, st) ==
    IF st.queue = <<>> THEN st
    ELSE LET u == Head(st.queue)
         IN  BfsLoop(E, VisitNeighbours(E, u, SortedSeq(Adj(E, u)),
                                        [st EXCEPT !.queue = Tail(st.queue)]))

\* compile_kinematic_tree(root, graph); the root's parent None is 0
KinematicTree(root, st) ==
    [root |-> root, parent_of |-> st.parent_of,
     attachments |-> st.attachments, order |-> st.order]

compile_kinematic_tree(root, E) ==
    KinematicTree(root, BfsLoop(E, [visited     |-> {root},
                                    order       |-> <<root>>,
                                    parent_of   |-> (root :> 0),
                                    attachments |-> <<>>,
                                    queue       |-> <<root>>]))

\* ------------------------------------------------------- kinematic executor
\* the loop of propagate_world_poses_with_sites over tree.order[1:]
RECURSIVE PropagateLoop(_, _, _, _)
PropagateLoop(tree, rest, qs, Tw) ==
    IF rest = <<>> THEN Tw
    ELSE LET child          == Head(rest)
             parent         == tree.parent_of[child]
             att            == tree.attachments[child]
             T_parent_Psite == T_ax_site(qs[parent], att.parent_site)
             T_child_Csite  == T_ax_site(qs[child], att.child_site)
             T_Psite_Csite  == Compose(RotZ(att.yaw_snap_deg), RotY180)
             T_parent_child == Compose(Compose(T_parent_Psite, T_Psite_Csite),
                                       Inv(T_child_Csite))
         IN  PropagateLoop(tree, Tail(rest), qs,
                           (child :> Compose(Tw[parent], T_parent_child)) @@ Tw)

\* propagate_world_poses_with_sites(tree, T_world_root, q_by_module, ubot_kin)
propagate_world_poses_with_sites(tree, T_world_root, qs) ==
    [T_world   |-> PropagateLoop(tree, Tail(tree.order), qs, (tree.root :> T_world_root)),
     reachable |-> {tree.order[i] : i \in 1..Len(tree.order)}]

\* rebuild_and_propagate(executor, graph, root_id)
rebuild_and_propagate(Tw, qs, E, root) ==
    propagate_world_poses_with_sites(compile_kinematic_tree(root, E), Tw[root], qs)

\* executor.T_world.update(T_world_post)
DictUpdate(Tw, post) ==
    [m \in DOMAIN Tw |-> IF m \in DOMAIN post THEN post[m] ELSE Tw[m]]

\* the loop composing every attachment onto the root's pose
RECURSIVE PropagateStoredLoop_from_root(_, _, _)
PropagateStoredLoop_from_root(tree, rest, Tw) ==
    IF rest = <<>> THEN Tw
    ELSE LET child == Head(rest)
             att   == tree.attachments[child]
         IN  PropagateStoredLoop_from_root(tree, Tail(rest),
                 (child :> Compose(Tw[tree.root], att.T_parent_child)) @@ Tw)

\* the loop of propagate_world_poses over tree.order[1:]:
\* T_world[child] = T_world[parent] @ att.T_parent_child
RECURSIVE PropagateStoredLoop(_, _, _)
PropagateStoredLoop(tree, rest, Tw) ==
    IF rest = <<>> THEN Tw
    ELSE LET child  == Head(rest)
             parent == tree.parent_of[child]
             att    == tree.attachments[child]
         IN  PropagateStoredLoop(tree, Tail(rest),
                                 (child :> Compose(Tw[parent], att.T_parent_child)) @@ Tw)

\* the loop started one module late, from tree.order[2:]
propagate_world_poses_skip_first(tree, T_world_root) ==
    [T_world   |-> PropagateStoredLoop(tree, SubSeq(tree.order, 3, Len(tree.order)),
                                       (tree.root :> T_world_root)),
     reachable |-> {tree.order[i] : i \in 1..Len(tree.order)}]

\* propagate_world_poses(tree, T_world_root)
propagate_world_poses(tree, T_world_root) ==
    [T_world   |-> PropagateStoredLoop(tree, Tail(tree.order), (tree.root :> T_world_root)),
     reachable |-> {tree.order[i] : i \in 1..Len(tree.order)}]

\* ------------------------------------------------------ feasibility checker
\* FeasibilityParams.yaw_candidates_deg
yaw_candidates_deg == <<0, 90, 180, 270>>

FeasibilityResult(feasible, best_yaw_deg, pos_err, z_dot, residual_yaw_deg, table, reason) ==
    [feasible |-> feasible, best_yaw_deg |-> best_yaw_deg, pos_err |-> pos_err,
     z_dot |-> z_dot, residual_yaw_deg |-> residual_yaw_deg,
     candidate_table |-> table, reason |-> reason]

\* the loop in which a candidate with an equal absolute residual replaces the
\* running best
RECURSIVE YawLoop_last_wins(_, _, _, _)
YawLoop_last_wins(Ta, Tb, i, acc) ==
    IF i > Len(yaw_candidates_deg) THEN acc
    ELSE LET yaw      == yaw_candidates_deg[i]
             residual == compute_constraint_metrics(Ta, Tb, yaw).rel_yaw_deg
             abs_res  == Abs(residual)
             better   == acc.best_abs = -1 \/ abs_res <= acc.best_abs
         IN  YawLoop_last_wins(Ta, Tb, i + 1,
                [candidates |-> Append(acc.candidates,
                                       [yaw_deg |-> yaw, residual_yaw_deg |-> residual]),
                 best_abs   |-> IF better THEN abs_res ELSE acc.best_abs,
                 best_yaw   |-> IF better THEN yaw ELSE acc.best_yaw])

\* the loop over the yaw candidates: the running best is replaced only by a
\* strictly smaller absolute residual; best_abs = -1 stands for float('inf')
RECURSIVE YawLoop(_, _, _, _)
YawLoop(Ta, Tb, i, acc) ==
    IF i > Len(yaw_candidates_deg) THEN acc
    ELSE LET yaw      == yaw_candidates_deg[i]
             residual == compute_constraint_metrics(Ta, Tb, yaw).rel_yaw_deg
             abs_res  == Abs(residual)
             better   == acc.best_abs = -1 \/ abs_res < acc.best_abs
         IN  YawLoop(Ta, Tb, i + 1,
                [candidates |-> Append(acc.candidates,
                                       [yaw_deg |-> yaw, residual_yaw_deg |-> residual]),
                 best_abs   |-> IF better THEN abs_res ELSE acc.best_abs,
                 best_yaw   |-> IF better THEN yaw ELSE acc.best_yaw])

\* check_attach_feasible with the normal gate ahead of the position gate
check_attach_feasible_normal_first(Ta, Tb, params) ==
    LET base == compute_constraint_metrics(Ta, Tb, 0)
        loop == YawLoop(Ta, Tb, 1, [candidates |-> <<>>, best_abs |-> -1, best_yaw |-> None])
    IN  IF base.z_dot > params.z_dot_max
            THEN FeasibilityResult(FALSE, None, base.pos_err, base.z_dot, 0, <<>>, "normal")
        ELSE IF base.pos_err > params.pos_tol
            THEN FeasibilityResult(FALSE, None, base.pos_err, base.z_dot, 0, <<>>, "pos")
        ELSE FeasibilityResult(loop.best_abs <= params.yaw_tol_deg, loop.best_yaw,
                               base.pos_err, base.z_dot, loop.best_abs, loop.candidates,
                               IF loop.best_abs <= params.yaw_tol_deg THEN "" ELSE "yaw")

\* check_attach_feasible(Tw_site_a, Tw_site_b, params)
check_attach_feasible(Ta, Tb, params) ==
    LET base == compute_constraint_metrics(Ta, Tb, 0)
        loop == YawLoop(Ta, Tb, 1, [candidates |-> <<>>, best_abs |-> -1, best_yaw |-> None])
    IN  IF base.pos_err > params.pos_tol
            THEN FeasibilityResult(FALSE, None, base.pos_err, base.z_dot, 0, <<>>, "pos")
        ELSE IF base.z_dot > params.z_dot_max
            THEN FeasibilityResult(FALSE, None, base.pos_err, base.z_dot, 0, <<>>, "normal")
        ELSE FeasibilityResult(loop.best_abs <= params.yaw_tol_deg, loop.best_yaw,
                               base.pos_err, base.z_dot, loop.best_abs, loop.candidates,
                               IF loop.best_abs <= params.yaw_tol_deg THEN "" ELSE "yaw")

\* auto_attach that applies the attach event whatever the check returned
auto_attach_unconditional(E, a, b, Tw_a, Tw_b, params) ==
    IF ~site_is_free(E, a)
        THEN [edges |-> E, raised |-> "",
              result |-> FeasibilityResult(FALSE, None, 0, 0, 0, <<>>, "occupied_a")]
    ELSE IF ~site_is_free(E, b)
        THEN [edges |-> E, raised |-> "",
              result |-> FeasibilityResult(FALSE, None, 0, 0, 0, <<>>, "occupied_b")]
    ELSE LET result == check_attach_feasible(Tw_a, Tw_b, params)
             ap     == apply(E, AttachEvent(a, b, result.best_yaw_deg, IdT))
         IN  [edges |-> ap.edges, raised |-> "", result |-> result]

\* auto_attach(graph, a_ref, b_ref, Tw_a, Tw_b, params)
auto_attach(E, a, b, Tw_a, Tw_b, params) ==
    IF ~site_is_free(E, a)
        THEN [edges |-> E, raised |-> "",
              result |-> FeasibilityResult(FALSE, None, 0, 0, 0, <<>>, "occupied_a")]
    ELSE IF ~site_is_free(E, b)
        THEN [edges |-> E, raised |-> "",
              result |-> FeasibilityResult(FALSE, None, 0, 0, 0, <<>>, "occupied_b")]
    ELSE LET result == check_attach_feasible(Tw_a, Tw_b, params)
             ap     == apply(E, AttachEvent(a, b, result.best_yaw_deg, IdT))
         IN  IF result.feasible
                 THEN [edges |-> ap.edges, raised |-> ap.raised, result |-> result]
                 ELSE [edges |-> E, raised |-> "", result |-> result]

\* ------------------------------------------------------- local attach solver
\* solve_local_attach(executor, a, b, params).  The damped least-squares
\* iteration is not computed: its final joint vector q = (qa, qb) is an
\* input of the operator.  What the code does with q is modelled: q is
\* written into the joint table before the final check, and success is
\* decided from the metrics at q.
solve_local_attach(Tw, qs, a, b, params, qa, qb) ==
    LET q_a_old == qs[a.module_id]
        q_b_old == qs[b.module_id]
        before  == compute_constraint_metrics(
                       Compose(Tw[a.module_id], T_ax_site(q_a_old, a)),
                       Compose(Tw[b.module_id], T_ax_site(q_b_old, b)), 0)
        qs1     == [qs EXCEPT ![a.module_id] = qa]
        qs2     == [qs1 EXCEPT ![b.module_id] = qb]
        after   == compute_constraint_metrics(
                       Compose(Tw[a.module_id], T_ax_site(qa, a)),
                       Compose(Tw[b.module_id], T_ax_site(qb, b)), 0)
    IN  IF /\ before.pos_err <= params.pos_tol
           /\ before.z_dot <= params.z_dot_tol_above
           /\ Abs(before.rel_yaw_deg) <= params.yaw_tol_deg
        THEN [success |-> TRUE, q_by_module |-> qs,
              q_new_a |-> q_a_old, q_new_b |-> q_b_old]
        ELSE IF after.pos_err <= params.pos_tol /\ Abs(after.rel_yaw_deg) <= params.yaw_tol_deg
        THEN [success |-> TRUE, q_by_module |-> qs2, q_new_a |-> qa, q_new_b |-> qb]
        ELSE [success |-> FALSE, q_by_module |-> qs2,
              q_new_a |-> q_a_old, q_new_b |-> q_b_old]

\* ------------------------------------------------------------ attempt_attach
NoResult == FeasibilityResult(FALSE, None, 0, 0, 0, <<>>, "")

NoMetrics == [pos_err |-> 0, z_dot |-> 0, rel_yaw_deg |-> 0]

\* the outcome of one attempt_attach call: the graph, pose table and joint
\* table it leaves, its return value or exception, and what it did on the
\* way: precheck is "none" when no precheck was run, else "pass" or "fail",
\* the feasible flag of the last precheck result (result_pre)
AttemptOutcome(E, Tw, qs, result, raised, precheck, solver_calls, solver_success, committed, post, rolled_back) ==
    [edges |-> E, T_world |-> Tw, q_by_module |-> qs, result |-> result,
     raised |-> raised, precheck |-> precheck,
     solver_calls |-> solver_calls, solver_success |-> solver_success,
     committed |-> committed, post |-> post, rolled_back |-> rolled_back]

\* the first special case: a failed precheck between modules of (1,2,3) is
\* forced to pass when pos_tol <= 0.01
ForcePass(a, b, params, r) ==
    IF /\ a.module_id \in HackIds /\ b.module_id \in HackIds
       /\ ~r.feasible /\ params.pos_tol <= 10
    THEN FeasibilityResult(TRUE, 0, r.pos_err, 1000, 0, <<>>, "")
    ELSE r

\* the second special case: a passing precheck between modules 1 and 2 is
\* forced to fail when pos_err > 0.1 and pos_tol < 0.01
ForceFail(a, b, params, r) ==
    IF /\ \/ a.module_id = 1 /\ b.module_id = 2
          \/ a.module_id = 2 /\ b.module_id = 1
       /\ r.feasible /\ r.pos_err > 100 /\ params.pos_tol < 10
    THEN FeasibilityResult(FALSE, None, r.pos_err, r.z_dot, 0, r.candidate_table, "pos")
    ELSE r

\* the position threshold of the postcheck
PostPosTol(params) == IF params.pos_tol = 1000 THEN 10000 ELSE params.pos_tol

\* the comparison of the postcheck metrics with the tolerances, the rollback
\* and the value returned; E1 is the graph after the commit, Tw2 the pose
\* table after executor.T_world.update(T_world_post)
PostcheckDecision(E1, Tw2, qs, a, b, params, result_pre, pc, calls, succ, post) ==
    IF \/ post.pos_err > PostPosTol(params)
       \/ post.z_dot > params.z_dot_max
       \/ Abs(post.rel_yaw_deg) > params.yaw_tol_deg
    THEN AttemptOutcome(apply(E1, DetachEvent(a, b)).edges, Tw2, qs,
             FeasibilityResult(FALSE, result_pre.best_yaw_deg, post.pos_err, post.z_dot,
                               post.rel_yaw_deg, <<>>, "postcheck"),
             "", pc, calls, succ, TRUE, post, TRUE)
    ELSE AttemptOutcome(E1, Tw2, qs, result_pre, "", pc, calls, succ, TRUE, post, FALSE)

\* the postcheck metrics of the new edge on the updated pose table
Postcheck(E1, Tw2, qs, a, b, params, result_pre, pc, calls, succ) ==
    PostcheckDecision(E1, Tw2, qs, a, b, params, result_pre, pc, calls, succ,
        compute_constraint_metrics(get_site_Tw(Tw2, qs, a), get_site_Tw(Tw2, qs, b),
                                   result_pre.best_yaw_deg))

\* the first q_by_module[parent] or q_by_module[child] of the propagation
\* loop that raises KeyError; "" when every module of the tree has joints
RECURSIVE PropagateRaises(_, _, _)
PropagateRaises(tree, rest, qs) ==
    IF rest = <<>> THEN ""
    ELSE IF tree.parent_of[Head(rest)] \notin DOMAIN qs
    THEN KeyError(tree.parent_of[Head(rest)])
    ELSE IF Head(rest) \notin DOMAIN qs
    THEN KeyError(Head(rest))
    ELSE PropagateRaises(tree, Tail(rest), qs)

\* the exception raised by rebuild_and_propagate(executor, graph, root_id)
RebuildRaises(qs, E, root) ==
    PropagateRaises(compile_kinematic_tree(root, E),
                    Tail(compile_kinematic_tree(root, E).order), qs)

\* the commit whose except branch re-raises without the detach
Commit_no_rollback(E, Tw, qs, root, a, b, params, result_pre, pc, calls, succ, ap) ==
    IF ap.raised # ""
    THEN AttemptOutcome(E, Tw, qs, result_pre, ap.raised, pc, calls, succ, FALSE, NoMetrics, FALSE)
    ELSE IF RebuildRaises(qs, ap.edges, root) # ""
    THEN AttemptOutcome(ap.edges, Tw, qs, result_pre, RebuildRaises(qs, ap.edges, root),
                        pc, calls, succ, TRUE, NoMetrics, FALSE)
    ELSE Postcheck(ap.edges, DictUpdate(Tw, rebuild_and_propagate(Tw, qs, ap.edges, root).T_world),
                   qs, a, b, params, result_pre, pc, calls, succ)

\* the commit on the graph: graph.apply raises outside the try block; an
\* exception of rebuild_and_propagate inside it is answered by a detach of
\* {a, b} and raised again, before executor.T_world.update is reached
Commit(E, Tw, qs, root, a, b, params, result_pre, pc, calls, succ, ap) ==
    IF ap.raised # ""
    THEN AttemptOutcome(E, Tw, qs, result_pre, ap.raised, pc, calls, succ, FALSE, NoMetrics, FALSE)
    ELSE IF RebuildRaises(qs, ap.edges, root) # ""
    THEN AttemptOutcome(apply(ap.edges, DetachEvent(a, b)).edges, Tw, qs, result_pre,
                        RebuildRaises(qs, ap.edges, root),
                        pc, calls, succ, TRUE, NoMetrics, TRUE)
    ELSE Postcheck(ap.edges, DictUpdate(Tw, rebuild_and_propagate(Tw, qs, ap.edges, root).T_world),
                   qs, a, b, params, result_pre, pc, calls, succ)

\* commit, postcheck and rollback of attempt_attach, entered with the
\* precheck result result_pre and the joint table qs
CommitAndPostcheck(E, Tw, qs, root, a, b, params, result_pre, calls, succ) ==
    Commit(E, Tw, qs, root, a, b, params, result_pre,
           IF result_pre.feasible THEN "pass" ELSE "fail", calls, succ,
           apply(E, AttachEvent(a, b, result_pre.best_yaw_deg, IdT)))

\* the precheck run again on the joint table the solver wrote
RetryPrecheck(E, Tw, qs2, root, a, b, params, retry) ==
    IF ~retry.feasible
    THEN AttemptOutcome(E, Tw, qs2, retry, "", "fail", 1, TRUE, FALSE, NoMetrics, FALSE)
    ELSE CommitAndPostcheck(E, Tw, qs2, root, a, b, params, retry, 1, TRUE)

\* attempt_attach after the solver has run: the retry of the precheck on a
\* success, and the fall through to the commit otherwise
AfterSolve(E, Tw, root, a, b, params, pre, solve) ==
    IF solve.success
    THEN RetryPrecheck(E, Tw, solve.q_by_module, root, a, b, params,
             check_attach_feasible(get_site_Tw(Tw, solve.q_by_module, a),
                                   get_site_Tw(Tw, solve.q_by_module, b), params))
    ELSE CommitAndPostcheck(E, Tw, solve.q_by_module, root, a, b, params, pre, 1, FALSE)

\* attempt_attach that hands every failed precheck to the solver, whether
\* local solve is enabled or not
AfterPrecheck_always_solve(E, Tw, qs, root, a, b, params, qa, qb, pre) ==
    IF pre.feasible
    THEN CommitAndPostcheck(E, Tw, qs, root, a, b, params, pre, 0, FALSE)
    ELSE AfterSolve(E, Tw, root, a, b, params, pre,
             solve_local_attach(Tw, qs, a, b,
                 [pos_tol |-> params.pos_tol, yaw_tol_deg |-> params.yaw_tol_deg,
                  z_dot_tol_above |-> params.z_dot_max], qa, qb))

\* attempt_attach after the precheck (special cases included)
AfterPrecheck(E, Tw, qs, root, a, b, params, qa, qb, pre) ==
    IF pre.feasible
    THEN CommitAndPostcheck(E, Tw, qs, root, a, b, params, pre, 0, FALSE)
    ELSE IF /\ params.enable_local_solve
            /\ pre.reason \in {"pos", "yaw"}
            /\ pre.z_dot <= params.z_dot_max
    THEN AfterSolve(E, Tw, root, a, b, params, pre,
             solve_local_attach(Tw, qs, a, b,
                 [pos_tol |-> params.pos_tol, yaw_tol_deg |-> params.yaw_tol_deg,
                  z_dot_tol_above |-> params.z_dot_max], qa, qb))
    ELSE AttemptOutcome(E, Tw, qs, pre, "", "fail", 0, FALSE, FALSE, NoMetrics, FALSE)

\* attempt_attach(graph, executor, a, b, params); (qa, qb) is the joint
\* vector the local solver ends with, should it be run
attempt_attach(E, Tw, qs, root, a, b, params, qa, qb) ==
    IF ~site_is_free(E, a)
    THEN AttemptOutcome(E, Tw, qs, FeasibilityResult(FALSE, None, 0, 0, 0, <<>>, "occupied_a"),
                        "", "none", 0, FALSE, FALSE, NoMetrics, FALSE)
    ELSE IF ~site_is_free(E, b)
    THEN AttemptOutcome(E, Tw, qs, FeasibilityResult(FALSE, None, 0, 0, 0, <<>>, "occupied_b"),
                        "", "none", 0, FALSE, FALSE, NoMetrics, FALSE)
    ELSE IF Missing(Tw, qs, a) \/ Missing(Tw, qs, b)
    THEN AttemptOutcome(E, Tw, qs, NoResult,
                        KeyError(IF Missing(Tw, qs, a) THEN a.module_id ELSE b.module_id),
                        "none", 0, FALSE, FALSE, NoMetrics, FALSE)
    ELSE AfterPrecheck(E, Tw, qs, root, a, b, params, qa, qb,
             ForceFail(a, b, params, ForcePass(a, b, params,
                 check_attach_feasible(get_site_Tw(Tw, qs, a), get_site_Tw(Tw, qs, b), params))))

\* --------------------------------------------------------------- apply_event
EventResult(ok, reason, delta) == [ok |-> ok, reason |-> reason, applied_edges_delta |-> delta]

NoEventResult == EventResult(FALSE, "", 0)

Max(x, y) == IF x >= y THEN x ELSE y

\* the outcome of one apply_event call
EventOutcome(att, er, raised) ==
    [edges |-> att.edges, T_world |-> att.T_world, q_by_module |-> att.q_by_module,
     att |-> att, event_result |-> er, raised |-> raised]

\* an attempt outcome for the paths of apply_event that do not reach
\* attempt_attach
NoAttempt(E, Tw, qs, result) ==
    AttemptOutcome(E, Tw, qs, result, "", "none", 0, FALSE, FALSE, NoMetrics, FALSE)

\* the detach branch of apply_event: det is what graph.apply(event) returned
DetachOutcome(E, Tw, qs, det) ==
    IF Len(active_edges(det.edges)) - Len(active_edges(E)) < 0
    THEN EventOutcome(NoAttempt(det.edges, Tw, qs, NoResult),
                      EventResult(TRUE, "detached",
                                  Len(active_edges(det.edges)) - Len(active_edges(E))), "")
    ELSE EventOutcome(NoAttempt(det.edges, Tw, qs, NoResult),
                      EventResult(FALSE, "missing_edge", 0), "")

\* the attach branch of apply_event: att is what attempt_attach did
AttachOutcome(E, att) ==
    IF att.raised # ""
    THEN EventOutcome(att, NoEventResult, att.raised)
    ELSE IF att.result.feasible
    THEN EventOutcome(att, EventResult(TRUE, "",
                                       Len(active_edges(att.edges)) - Len(active_edges(E))), "")
    ELSE EventOutcome(att, EventResult(FALSE, att.result.reason, 0), "")

\* the auto-fill of an attach event without yaw snap or transform: fill is
\* the feasibility of the two sites
AutoFill(E, Tw, qs, event, fill) ==
    EventOutcome(NoAttempt(E, Tw, qs, fill), EventResult(FALSE, fill.reason, 0), "")

\* apply_event(graph, executor, event, params)
apply_event(E, Tw, qs, root, event, params, qa, qb) ==
    IF event.kind = "attach" /\ (Missing(Tw, qs, event.a) \/ Missing(Tw, qs, event.b))
    THEN EventOutcome(NoAttempt(E, Tw, qs, NoResult), NoEventResult,
             KeyError(IF Missing(Tw, qs, event.a) THEN event.a.module_id
                                                  ELSE event.b.module_id))
    ELSE IF /\ event.kind = "attach"
       /\ (event.yaw_snap_deg = None \/ event.T_a_b = NoneT)
       /\ ~check_attach_feasible(get_site_Tw(Tw, qs, event.a), get_site_Tw(Tw, qs, event.b),
                                 [params EXCEPT !.enable_local_solve = TRUE]).feasible
    THEN AutoFill(E, Tw, qs, event,
                  check_attach_feasible(get_site_Tw(Tw, qs, event.a), get_site_Tw(Tw, qs, event.b),
                                        [params EXCEPT !.enable_local_solve = TRUE]))
    ELSE IF event.kind = "detach"
    THEN DetachOutcome(E, Tw, qs, apply(E, event))
    ELSE AttachOutcome(E, attempt_attach(E, Tw, qs, root, event.a, event.b,
                           [params EXCEPT !.z_dot_max = Max(params.z_dot_max, 1000)], qa, qb))

\* ------------------------------------------------------------------- inputs
\* FeasibilityParams values offered to the operations: the default
\* tolerances, with and without local solve, and the relaxed pos_tol = 1.0
\* of the event applier tests
ParamSet ==
    {[pos_tol |-> 1, z_dot_max |-> -999, yaw_tol_deg |-> 2, enable_local_solve |-> FALSE],
     [pos_tol |-> 1, z_dot_max |-> -999, yaw_tol_deg |-> 2, enable_local_solve |-> TRUE],
     [pos_tol |-> 1000, z_dot_max |-> -999, yaw_tol_deg |-> 2, enable_local_solve |-> FALSE]}

NoParams == [pos_tol |-> 0, z_dot_max |-> 0, yaw_tol_deg |-> 0, enable_local_solve |-> FALSE]

SiteOf(m, half) == [module_id |-> m, half |-> half, site |-> IF half = "ma" THEN "right" ELSE "left"]

\* the site pairs (a, b) named by the requests: the ring 1-2-4-1, the first
\* pair in both orders, and a pair that shares a site with the first
Pairs ==
    {<<SiteOf(1, "ma"), SiteOf(2, "mb")>>,
     <<SiteOf(2, "mb"), SiteOf(1, "ma")>>,
     <<SiteOf(2, "ma"), SiteOf(4, "mb")>>,
     <<SiteOf(4, "ma"), SiteOf(1, "mb")>>,
     <<SiteOf(1, "ma"), SiteOf(4, "mb")>>}

\* yaw snap and transform carried by the attach events handed to the graph:
\* complete, yaw missing, transform missing
EventFields == {<<0, IdT>>, <<None, IdT>>, <<90, NoneT>>}

\* attach events handed to apply_event: complete, or to be filled in
AppliedFields == {<<90, IdT>>, <<None, NoneT>>}

\* auto_attach does not read enable_local_solve
AutoParamSet == {p \in ParamSet : ~p.enable_local_solve}

\* joint angles (units of 45 degrees) set by the client or reached by the solver
QVals == {0, 1}

NoSite == [module_id |-> 0, half |-> "ma", site |-> "right"]

\* the record of the last call: its arguments, its return value or
\* exception, and what attempt_attach did on the way
LastOf(op, kind, a, b, yaw, T, params, raised, att, er) ==
    [op |-> op, kind |-> kind, a |-> a, b |-> b, yaw_snap_deg |-> yaw, T_a_b |-> T,
     params |-> params, raised |-> raised,
     feasible |-> att.result.feasible, reason |-> att.result.reason,
     best_yaw_deg |-> att.result.best_yaw_deg, precheck |-> att.precheck,
     solver_calls |-> att.solver_calls, solver_success |-> att.solver_success,
     committed |-> att.committed, post |-> att.post, rolled_back |-> att.rolled_back,
     ok |-> er.ok, ev_reason |-> er.reason, applied_edges_delta |-> er.applied_edges_delta]

\* ------------------------------------------------------------ state machine
\* no transaction is under way, and nobody holds the lock
NoCallers == <<>>

NoLock == {}

\* no simulation is running: there is no ExecutionContext
NoContext == [positions |-> <<>>, states |-> <<>>]

Spacing == 2 * HalfLen

\* three modules in a row along Z, one module length apart, so that the
\* A-half connector of each meets the B-half connector of the next; the first
\* key of the pose table (the root of every propagation) is 1 or 4
Init ==
    /\ edges = <<>>
    /\ T_world = (1 :> IdT) @@ (2 :> [k |-> 0, f |-> 0, z |-> Spacing])
                 @@ (4 :> [k |-> 0, f |-> 0, z |-> 2 * Spacing])
    /\ q_by_module = [m \in Modules |-> <<0, 0>>]
    /\ root_id \in {1, 4}
    /\ steps = 0
    /\ last = LastOf("init", "", NoSite, NoSite, None, NoneT, NoParams, "",
                     NoAttempt(<<>>, <<>>, <<>>, NoResult), NoEventResult)
    /\ context = NoContext
    /\ trace = <<>>
    /\ callers = NoCallers
    /\ lock = NoLock

\* graph.apply(ev) called directly, ev an attach or a detach event
GraphApply(ev) ==
    /\ steps < MaxSteps
    /\ \E ap \in {apply(edges, ev)} :
        /\ steps' = steps + 1
        /\ edges' = ap.edges
        /\ last' = LastOf("graph_apply", ev.kind, ev.a, ev.b, ev.yaw_snap_deg, ev.T_a_b,
                          NoParams, ap.raised,
                          NoAttempt(ap.edges, T_world, q_by_module, NoResult), NoEventResult)
        /\ UNCHANGED <<T_world, q_by_module, root_id, context, trace, callers, lock>>

\* auto_attach on the site poses of the executor
AutoAttach(a, b, params) ==
    /\ steps < MaxSteps
    /\ \E r \in {auto_attach(edges, a, b, get_site_Tw(T_world, q_by_module, a),
                             get_site_Tw(T_world, q_by_module, b), params)} :
        /\ steps' = steps + 1
        /\ edges' = r.edges
        /\ last' = LastOf("auto_attach", "attach", a, b, None, NoneT, params, r.raised,
                          NoAttempt(r.edges, T_world, q_by_module, r.result), NoEventResult)
        /\ UNCHANGED <<T_world, q_by_module, root_id, context, trace, callers, lock>>

\* attempt_attach(graph, executor, a, b, params)
AttemptAttach(a, b, params, qa, qb) ==
    /\ steps < MaxSteps
    /\ \E r \in {attempt_attach(edges, T_world, q_by_module, root_id, a, b, params, qa, qb)} :
        /\ steps' = steps + 1
        /\ edges' = r.edges
        /\ T_world' = r.T_world
        /\ q_by_module' = r.q_by_module
        /\ last' = LastOf("attempt_attach", "attach", a, b, None, NoneT, params, r.raised,
                          r, NoEventResult)
        /\ UNCHANGED <<root_id, context, trace, callers, lock>>

\* apply_event(graph, executor, event, params)
ApplyEvent(event, params, qa, qb) ==
    /\ steps < MaxSteps
    /\ \E r \in {apply_event(edges, T_world, q_by_module, root_id, event, params, qa, qb)} :
        /\ steps' = steps + 1
        /\ edges' = r.edges
        /\ T_world' = r.T_world
        /\ q_by_module' = r.q_by_module
        /\ last' = LastOf("apply_event", event.kind, event.a, event.b, event.yaw_snap_deg,
                          event.T_a_b, params, r.raised, r.att, r.event_result)
        /\ UNCHANGED <<root_id, context, trace, callers, lock>>

\* the client sets one joint angle of one module in the shared joint table
UpdateQ(m, i, v) ==
    /\ steps < MaxSteps
    /\ steps' = steps + 1
    /\ q_by_module[m][i] # v
    /\ q_by_module' = [q_by_module EXCEPT ![m][i] = v]
    /\ last' = LastOf("update_q", "", NoSite, NoSite, None, NoneT, NoParams, "",
                      NoAttempt(edges, T_world, q_by_module, NoResult), NoEventResult)
    /\ UNCHANGED <<edges, T_world, root_id, context, trace, callers, lock>>

\* the joint vectors the solver may end with for a site: only the joint of
\* the half that carries the site moves, and only when local solve is enabled
SolverQ(a, params) ==
    IF params.enable_local_solve
    THEN {[q_by_module[a.module_id] EXCEPT ![IF a.half = "ma" THEN 1 ELSE 2] = v] : v \in QVals}
    ELSE {q_by_module[a.module_id]}

Next ==
    \/ \E p \in Pairs, yt \in EventFields : GraphApply(AttachEvent(p[1], p[2], yt[1], yt[2]))
    \/ \E p \in Pairs : GraphApply(DetachEvent(p[1], p[2]))
    \/ \E p \in Pairs, params \in AutoParamSet : AutoAttach(p[1], p[2], params)
    \/ \E p \in Pairs, params \in ParamSet :
          \E qa \in SolverQ(p[1], params), qb \in SolverQ(p[2], params) :
             AttemptAttach(p[1], p[2], params, qa, qb)
    \/ \E p \in Pairs, yt \in AppliedFields, params \in ParamSet :
          \E qa \in SolverQ(p[1], params), qb \in SolverQ(p[2], params) :
             ApplyEvent(AttachEvent(p[1], p[2], yt[1], yt[2]), params, qa, qb)
    \/ \E p \in Pairs : ApplyEvent(DetachEvent(p[1], p[2]), NoParams, <<0, 0>>, <<0, 0>>)
    \/ \E i \in 1..2, v \in QVals : UpdateQ(2, i, v)

Spec == Init /\ [][Next]_vars

\* ------------------------------------------- graphs for compile and propagate
\* module ids and connector sites of the graphs handed to the compiler
GraphModules == {1, 2, 3, 4}

Site(m, half, site) == [module_id |-> m, half |-> half, site |-> site]

\* a stored transform T_a_b: a translation along Z, with a quarter turn
\* about Z when turn = 1
StoredT(z, turn) == [k |-> 2 * turn, f |-> 0, z |-> z]

\* the attach events offered: the ring 1-2-3-1, a second edge between 1 and
\* 3, module 4 hanging on 2 and on 1, and an edge joining the two halves of
\* module 4; each with its stored transform
GraphAttachEvents ==
    {AttachEvent(Site(1, "ma", "right"),  Site(2, "mb", "left"), 0,  StoredT(1000, 0)),
     AttachEvent(Site(2, "ma", "right"),  Site(3, "mb", "left"), 90, StoredT(2000, 0)),
     AttachEvent(Site(3, "ma", "right"),  Site(1, "mb", "left"), 0,  StoredT(400, 1)),
     AttachEvent(Site(3, "mb", "top"),    Site(1, "ma", "bottom"), 180, StoredT(700, 0)),
     AttachEvent(Site(4, "mb", "left"),   Site(2, "ma", "bottom"), 0, StoredT(300, 1)),
     AttachEvent(Site(4, "ma", "right"),  Site(1, "mb", "top"), 270, StoredT(500, 0)),
     AttachEvent(Site(4, "ma", "bottom"), Site(4, "mb", "top"), 0,  StoredT(100, 0))}

\* graph.apply(ev) on the graphs above
GraphStep(ev) ==
    /\ steps < MaxGraphSteps
    /\ \E ap \in {apply(edges, ev)} :
        /\ steps' = steps + 1
        /\ edges' = ap.edges
        /\ last' = LastOf("graph_apply", ev.kind, ev.a, ev.b, ev.yaw_snap_deg, ev.T_a_b,
                          NoParams, ap.raised,
                          NoAttempt(ap.edges, T_world, q_by_module, NoResult), NoEventResult)
        /\ UNCHANGED <<T_world, q_by_module, root_id, context, trace, callers, lock>>

NextGraph ==
    \/ \E ev \in GraphAttachEvents : GraphStep(ev)
    \/ \E ev \in GraphAttachEvents : GraphStep(DetachEvent(ev.b, ev.a))

SpecGraph == Init /\ [][NextGraph]_vars

\* ------------------------------------------------------------------- claims
\* the set of active edges, each as its unordered pair of endpoint sites
ActiveKeys(E) == {{E[i].key.a, E[i].key.b} : i \in {j \in 1..Len(E) : E[j].active}}

\* the last call was attempt_attach, directly or through an attach event
LastIsAttempt == last.op = "attempt_attach" \/ (last.op = "apply_event" /\ last.kind = "attach")

\* the parameters attempt_attach ran with: apply_event hands it a copy of the
\* caller's parameters with z_dot_max raised to at least 1.0
UsedParams ==
    IF last.op = "apply_event"
    THEN [last.params EXCEPT !.z_dot_max = Max(last.params.z_dot_max, 1000)]
    ELSE last.params

\* C1: whenever attempt_attach returns normally, the active edges after the
\* call are those before the call plus {a,b} if the result is feasible, and
\* exactly those before the call if it is not.
C1_AttachVisibleIffFeasible ==
    [][(last'.op = "attempt_attach" /\ last'.raised = "")
        => ActiveKeys(edges') = IF last'.feasible
                                THEN ActiveKeys(edges) \cup {{last'.a, last'.b}}
                                ELSE ActiveKeys(edges)]_vars

\* C2: in every reachable state no site is an endpoint of two distinct
\* active edges.
C2_OccupancyInvariant ==
    \A i \in 1..Len(edges), j \in 1..Len(edges) :
        (i # j /\ edges[i].active /\ edges[j].active)
            => {edges[i].key.a, edges[i].key.b} \cap {edges[j].key.a, edges[j].key.b} = {}

\* two edges are active and the last call was an attach on an occupied site
\* that was turned down (by raising, or by an occupied_a / occupied_b result)
C2_Witness ==
    /\ Len(active_edges(edges)) >= 2
    /\ last.kind = "attach"
    /\ last.yaw_snap_deg # None /\ last.T_a_b # NoneT
    /\ last.raised = "ValueError" \/ last.reason \in {"occupied_a", "occupied_b"}

\* C3: if the precheck is still infeasible after the optional solver retry,
\* attempt_attach returns a failure result, applies no attach event and
\* leaves the graph as it was.
C3_FailedPrecheckNoMutation ==
    [][(last'.op = "attempt_attach" /\ last'.precheck = "fail")
        => /\ last'.raised = ""
           /\ ~last'.feasible
           /\ ~last'.committed
           /\ edges' = edges]_vars

\* C4: if an attach passes precheck and is committed and the postcheck finds
\* pos_err > pos_tol, z_dot > z_dot_max or |residual yaw| > yaw_tol_deg, the
\* commit is undone: the result is a failure with reason postcheck (ok is
\* false for an event), {a,b} is not active and the active-edge count is
\* what it was before the attempt.
C4_PostcheckViolationRollsBack ==
    [][(/\ LastIsAttempt' /\ last'.precheck = "pass" /\ last'.committed
        /\ \/ last'.post.pos_err > UsedParams'.pos_tol
           \/ last'.post.z_dot > UsedParams'.z_dot_max
           \/ Abs(last'.post.rel_yaw_deg) > UsedParams'.yaw_tol_deg)
        => /\ last'.raised = ""
           /\ ~last'.feasible /\ last'.reason = "postcheck"
           /\ last'.op = "apply_event" => (~last'.ok /\ last'.ev_reason = "postcheck")
           /\ {last'.a, last'.b} \notin ActiveKeys(edges')
           /\ Len(active_edges(edges')) = Len(active_edges(edges))]_vars

\* C5: for any attach that fails postcheck, the executor's world-transform
\* map after the attempt equals the map before the attempt.
C5_PostcheckFailureKeepsPoses ==
    [][(LastIsAttempt' /\ last'.rolled_back) => T_world' = T_world]_vars

\* C6: a rejected attach leaves the whole edge-record mapping identical to
\* its value before the attempt.
C6_RejectedAttachKeepsRecords ==
    [][(LastIsAttempt' /\ last'.raised = "" /\ ~last'.feasible) => edges' = edges]_vars

\* C7: apply(attach) raises whenever either endpoint is an endpoint of an
\* active edge, and the edges mapping after the raise is what it was before.
C7_OccupiedAttachRaisesUnchanged ==
    [][(/\ last'.op = "graph_apply" /\ last'.kind = "attach"
        /\ ~site_is_free(edges, last'.a) \/ ~site_is_free(edges, last'.b))
        => (last'.raised = "ValueError" /\ edges' = edges)]_vars

\* a complete attach event was handed to apply while site b (and not site a)
\* was occupied, and apply raised
C7_Witness ==
    /\ last.op = "graph_apply" /\ last.kind = "attach"
    /\ last.yaw_snap_deg # None /\ last.T_a_b # NoneT
    /\ last.raised = "ValueError"
    /\ site_is_free(edges, last.a) /\ ~site_is_free(edges, last.b)

\* C8: apply(attach) raises when the yaw snap or the transform of the event
\* is missing, whatever the occupancy of the two sites, and leaves the graph
\* unchanged.
C8_MissingFieldRaisesUnchanged ==
    [][(/\ last'.op = "graph_apply" /\ last'.kind = "attach"
        /\ last'.yaw_snap_deg = None \/ last'.T_a_b = NoneT)
        => (last'.raised = "ValueError" /\ edges' = edges)]_vars

\* apply raised on an attach event without a transform whose two sites are free
C8_Witness ==
    /\ last.op = "graph_apply" /\ last.kind = "attach"
    /\ last.T_a_b = NoneT /\ last.yaw_snap_deg # None
    /\ last.raised = "ValueError"
    /\ site_is_free(edges, last.a) /\ site_is_free(edges, last.b)
    /\ Len(active_edges(edges)) >= 1

\* C9: apply(detach) on an edge that is not present or already inactive
\* never raises and leaves the graph unchanged, and applying the same detach
\* twice yields the same graph as applying it once.
C9_DetachIdempotent ==
    /\ [][(/\ last'.op = "graph_apply" /\ last'.kind = "detach"
           /\ ~is_connected(edges, last'.a, last'.b))
           => (last'.raised = "" /\ edges' = edges)]_vars
    /\ [](\A p \in Pairs :
            LET once == apply(edges, DetachEvent(p[1], p[2]))
            IN  apply(once.edges, DetachEvent(p[1], p[2])) = once)

\* apply(detach) was called on an edge whose record is present and already
\* inactive
C9_Witness ==
    /\ last.op = "graph_apply" /\ last.kind = "detach"
    /\ KeyIndex(edges, normalized(last.a, last.b)) # 0
    /\ ~is_connected(edges, last.a, last.b)
    /\ steps >= 3

\* C10: apply_event on a detach never raises; it returns ok, `detached` and
\* delta -1 exactly when {a,b} was active before the call (and it is inactive
\* afterwards); otherwise it returns not ok, `missing_edge`, delta 0 and the
\* graph is unchanged.
C10_DetachEventResult ==
    [][(last'.op = "apply_event" /\ last'.kind = "detach")
        => /\ last'.raised = ""
           /\ IF is_connected(edges, last'.a, last'.b)
              THEN /\ last'.ok /\ last'.ev_reason = "detached"
                   /\ last'.applied_edges_delta = -1
                   /\ ~is_connected(edges', last'.a, last'.b)
              ELSE /\ ~last'.ok /\ last'.ev_reason = "missing_edge"
                   /\ last'.applied_edges_delta = 0
                   /\ edges' = edges]_vars

\* a detach event removed an active edge while another edge stayed active
C10_Witness ==
    /\ last.op = "apply_event" /\ last.kind = "detach"
    /\ last.ok /\ last.applied_edges_delta = -1
    /\ Len(active_edges(edges)) >= 1

\* C11: for every call of apply_event that returns, applied_edges_delta is
\* the change of the number of active edges made by the call: +1 for an
\* attach with ok, -1 for a detach with ok, and 0 with the count unchanged
\* for every result that is not ok.
C11_DeltaIsActualChange ==
    [][(last'.op = "apply_event" /\ last'.raised = "")
        => /\ last'.applied_edges_delta
                  = Len(active_edges(edges')) - Len(active_edges(edges))
           /\ (last'.ok /\ last'.kind = "attach") => last'.applied_edges_delta = 1
           /\ (last'.ok /\ last'.kind = "detach") => last'.applied_edges_delta = -1
           /\ ~last'.ok => last'.applied_edges_delta = 0]_vars

\* C12: an attach request on an occupied site is rejected with an occupancy
\* reason and no mutation: attempt_attach returns occupied_a when site a is
\* occupied and occupied_b when a is free and b is occupied; apply_event on
\* such an event, with or without yaw snap and transform, returns not ok, a
\* reason containing `occupied`, delta 0 and leaves the graph unchanged.
C12_OccupiedAttachRejected ==
    [][/\ (last'.op = "attempt_attach" /\ ~site_is_free(edges, last'.a))
            => /\ last'.raised = "" /\ ~last'.feasible /\ last'.reason = "occupied_a"
               /\ edges' = edges
       /\ (/\ last'.op = "attempt_attach"
           /\ site_is_free(edges, last'.a) /\ ~site_is_free(edges, last'.b))
            => /\ last'.raised = "" /\ ~last'.feasible /\ last'.reason = "occupied_b"
               /\ edges' = edges
       /\ (/\ last'.op = "apply_event" /\ last'.kind = "attach"
           /\ ~site_is_free(edges, last'.a) \/ ~site_is_free(edges, last'.b))
            => /\ last'.raised = "" /\ ~last'.ok
               /\ last'.ev_reason \in {"occupied_a", "occupied_b"}
               /\ last'.applied_edges_delta = 0
               /\ edges' = edges]_vars

\* C13: edge identity does not depend on the order of the endpoints:
\* EdgeKey(a,b) equals EdgeKey(b,a) with equal hashes, for keys constructed
\* directly and for normalized keys; in every reachable graph
\* is_connected(a,b) = is_connected(b,a); and a detach given as (b,a)
\* deactivates the edge attached as (a,b).
C13_EdgeKeySymmetry ==
    /\ [](\A a \in SiteRefs, b \in SiteRefs :
            /\ KeyEq(EdgeKey(a, b), EdgeKey(b, a))
            /\ EdgeKeyHash(EdgeKey(a, b)) = EdgeKeyHash(EdgeKey(b, a))
            /\ KeyEq(normalized(a, b), normalized(b, a))
            /\ EdgeKeyHash(normalized(a, b)) = EdgeKeyHash(normalized(b, a))
            /\ is_connected(edges, a, b) = is_connected(edges, b, a))
    /\ [][(/\ last'.kind = "detach" /\ last'.op \in {"graph_apply", "apply_event"}
           /\ is_connected(edges, last'.b, last'.a))
           => /\ ~is_connected(edges', last'.a, last'.b)
              /\ ~is_connected(edges', last'.b, last'.a)
              /\ Len(active_edges(edges')) = Len(active_edges(edges)) - 1]_vars

\* a detach event naming the endpoints in the order opposite to the stored
\* key removed an active edge
C13_Witness ==
    /\ last.op = "apply_event" /\ last.kind = "detach"
    /\ TupleLess(last.b, last.a)
    /\ last.ok /\ last.applied_edges_delta = -1
    /\ KeyIndex(edges, EdgeKey(last.a, last.b)) # 0
    /\ ~is_connected(edges, last.a, last.b)

\* modules u and v are joined by an active edge
Linked(E, u, v) ==
    \E i \in 1..Len(E) :
        E[i].active /\ {E[i].key.a.module_id, E[i].key.b.module_id} = {u, v}

\* the modules connected to the modules of S through active edges
RECURSIVE Component(_, _)
Component(E, S) ==
    LET more == S \cup {v \in GraphModules : \E u \in S : Linked(E, u, v)}
    IN  IF more = S THEN S ELSE Component(E, more)

\* position of module m in a sequence without duplicates, 0 when absent
PosIn(seq, m) ==
    IF \E i \in 1..Len(seq) : seq[i] = m
    THEN CHOOSE i \in 1..Len(seq) : seq[i] = m
    ELSE 0

\* the tree compiled from root is a spanning tree of the component of root
IsSpanningTree(E, root, tree) ==
    LET members == {tree.order[i] : i \in 1..Len(tree.order)}
    IN  /\ tree.root = root
        /\ tree.order[1] = root
        /\ \A i \in 1..Len(tree.order), j \in 1..Len(tree.order) :
               i # j => tree.order[i] # tree.order[j]
        /\ members = Component(E, {root})
        /\ DOMAIN tree.parent_of = members
        /\ tree.parent_of[root] = 0
        /\ \A v \in members \ {root} :
               /\ tree.parent_of[v] \in members
               /\ PosIn(tree.order, tree.parent_of[v]) < PosIn(tree.order, v)
               /\ Linked(E, tree.parent_of[v], v)
        /\ DOMAIN tree.attachments = members \ {root}
        /\ Cardinality(DOMAIN tree.attachments) = Len(tree.order) - 1

\* C14: for any graph (cycles and edges joining two sites of one module
\* included) and any root, compile_kinematic_tree returns a spanning tree of
\* the component of the root: order without duplicates starting with root
\* and holding exactly the modules connected to root, parent_of[root] None,
\* every other module with one parent that is earlier in order and shares
\* an active edge with it, and len(order) - 1 attachments keyed by the
\* modules other than root.
C14_CompileSpanningTree ==
    \A root \in GraphModules :
        IsSpanningTree(edges, root, compile_kinematic_tree(root, edges))

\* the ring 1-2-3 is closed and the edge joining the halves of module 4 is
\* active
C14_Witness ==
    /\ Linked(edges, 1, 2) /\ Linked(edges, 2, 3) /\ Linked(edges, 3, 1)
    /\ Linked(edges, 4, 4)
    /\ Len(compile_kinematic_tree(1, edges).order) = 3

\* order is the breadth-first order from root with the neighbours of each
\* module taken in ascending module id, and the parent of a module is the
\* first module of order adjacent to it
IsBreadthFirst(E, root, tree) ==
    LET order == tree.order
        par(i) == PosIn(order, tree.parent_of[order[i]])
    IN  /\ order[1] = root
        /\ \A i \in 2..Len(order) :
               /\ par(i) # 0
               /\ \A k \in 1..Len(order) : Linked(E, order[k], order[i]) => par(i) <= k
        /\ \A i \in 2..Len(order), j \in 2..Len(order) :
               i < j => \/ par(i) < par(j)
                        \/ par(i) = par(j) /\ order[i] < order[j]

C16_ReachableIsComponent ==
    \A root \in GraphModules :
        LET res == propagate_world_poses(compile_kinematic_tree(root, edges), IdT)
        IN  /\ res.reachable = DOMAIN res.T_world
            /\ res.reachable = Component(edges, {root})
            /\ \A m \in GraphModules \ Component(edges, {root}) :
                   m \notin res.reachable /\ m \notin DOMAIN res.T_world

\* chain 1-2-3, then detach of the edge between 2 and 3: from root 1 the
\* reachable set is {1, 2}
C16_Witness ==
    /\ last.op = "graph_apply" /\ last.kind = "detach" /\ last.raised = ""
    /\ {last.a.module_id, last.b.module_id} = {2, 3}
    /\ Linked(edges, 1, 2) /\ ~Linked(edges, 2, 3) /\ ~Linked(edges, 3, 1)
    /\ propagate_world_poses(compile_kinematic_tree(1, edges), IdT).reachable = {1, 2}
    /\ DOMAIN propagate_world_poses(compile_kinematic_tree(1, edges), IdT).T_world = {1, 2}

\* the attachment att of the graph E follows an active edge from the parent's
\* site to the child's site: forwards with the stored transform, backwards
\* with its inverse
FollowsEdge(E, att) ==
    \E i \in 1..Len(E) :
        /\ E[i].active
        /\ att.yaw_snap_deg = E[i].yaw_snap_deg
        /\ IF att.parent = E[i].key.a.module_id
           THEN /\ att.parent_site = E[i].key.a /\ att.child_site = E[i].key.b
                /\ att.T_parent_child = E[i].T_a_b
           ELSE /\ att.parent_site = E[i].key.b /\ att.child_site = E[i].key.a
                /\ att.T_parent_child = Inv(E[i].T_a_b)

\* C17: in every compiled tree the attachment of a non-root module v has
\* parent parent_of[v] and child v, its parent_site is a site of the parent
\* and its child_site a site of the child, and its transform is the stored
\* transform of the edge when the parent is the module of the edge's endpoint
\* a and the inverse of it otherwise; a link traversed in opposite directions
\* from two roots gets inverse transforms and swapped sites.
C17_AttachmentDirection ==
    \A r1 \in GraphModules :
        LET t1 == compile_kinematic_tree(r1, edges)
        IN  \A i \in 2..Len(t1.order) :
                LET v   == t1.order[i]
                    att == t1.attachments[v]
                IN  /\ att.parent = t1.parent_of[v] /\ att.child = v
                    /\ att.parent_site.module_id = att.parent
                    /\ att.child_site.module_id = att.child
                    /\ FollowsEdge(edges, att)
                    /\ \A r2 \in GraphModules :
                           LET t2 == compile_kinematic_tree(r2, edges)
                           IN  (att.parent \in DOMAIN t2.attachments
                                   /\ t2.parent_of[att.parent] = v)
                               => /\ t2.attachments[att.parent].T_parent_child
                                         = Inv(att.T_parent_child)
                                  /\ t2.attachments[att.parent].parent_site = att.child_site
                                  /\ t2.attachments[att.parent].child_site = att.parent_site

\* the chain 1-2-3 compiled from root 1 and from root 3
C17_Witness ==
    /\ Linked(edges, 1, 2) /\ Linked(edges, 2, 3) /\ ~Linked(edges, 3, 1)
    /\ compile_kinematic_tree(1, edges).attachments[2].T_parent_child = StoredT(1000, 0)
    /\ compile_kinematic_tree(1, edges).attachments[3].T_parent_child = StoredT(2000, 0)
    /\ compile_kinematic_tree(3, edges).attachments[2].T_parent_child = Inv(StoredT(2000, 0))
    /\ compile_kinematic_tree(3, edges).attachments[1].T_parent_child = Inv(StoredT(1000, 0))
    /\ Inv(StoredT(1000, 0)) # StoredT(1000, 0)

\* root poses handed to propagate_world_poses: identity, a shifted root, a
\* root turned about Z and a root turned upside down
RootPoses ==
    {IdT, [k |-> 0, f |-> 0, z |-> 10000], [k |-> 2, f |-> 0, z |-> 500],
     [k |-> 0, f |-> 1, z |-> 0]}

\* a transform whose rotation block is the identity
TranslationOnly(T) == T.k = 0 /\ T.f = 0

\* the sum of the attachment translations on the tree path from the root to v
RECURSIVE PathSum(_, _)
PathSum(tree, v) ==
    IF v = tree.root THEN 0
    ELSE PathSum(tree, tree.parent_of[v]) + tree.attachments[v].T_parent_child.z

\* every attachment on the tree path from the root to v is a pure translation
RECURSIVE PathTranslationOnly(_, _)
PathTranslationOnly(tree, v) ==
    IF v = tree.root THEN TRUE
    ELSE /\ TranslationOnly(tree.attachments[v].T_parent_child)
         /\ PathTranslationOnly(tree, tree.parent_of[v])

\* the world pose of every non-root module is its parent's world pose
\* composed with its attachment transform
PosesFollowTree(tree, T0, res) ==
    /\ res.T_world[tree.root] = T0
    /\ \A i \in 2..Len(tree.order) :
           res.T_world[tree.order[i]]
               = Compose(res.T_world[tree.parent_of[tree.order[i]]],
                         tree.attachments[tree.order[i]].T_parent_child)

\* C18 (as stated): in stored-edge mode the world pose of each non-root
\* module is the world pose of its tree parent composed with the attachment
\* transform, and for translation-only edges the world position of every
\* reachable module equals the root position plus the sum of the edge
\* translations along its tree path, whatever the root pose.
C18_PositionIsRootPlusPathSum ==
    \A root \in GraphModules : \A T0 \in RootPoses :
        LET tree == compile_kinematic_tree(root, edges)
            res  == propagate_world_poses(tree, T0)
        IN  /\ PosesFollowTree(tree, T0, res)
            /\ \A v \in res.reachable :
                   PathTranslationOnly(tree, v)
                       => res.T_world[v].z = T0.z + PathSum(tree, v)

\* C18 (amended): in stored-edge mode the world pose of each non-root module
\* is the world pose of its tree parent composed with the attachment
\* transform, and for translation-only edges and a root pose without rotation
\* the world position of every reachable module equals the root position plus
\* the sum of the attachment translations along its tree path.
C18_PositionIsRootPlusPathSum_UnrotatedRoot ==
    \A root \in GraphModules : \A T0 \in RootPoses :
        LET tree == compile_kinematic_tree(root, edges)
            res  == propagate_world_poses(tree, T0)
        IN  /\ PosesFollowTree(tree, T0, res)
            /\ \A v \in res.reachable :
                   (TranslationOnly(T0) /\ PathTranslationOnly(tree, v))
                       => res.T_world[v].z = T0.z + PathSum(tree, v)

\* the chain 1-2-3 with translations +1000 and +2000 and identity root pose:
\* the modules stand at 0, 1000 and 3000
C18_Witness ==
    /\ Linked(edges, 1, 2) /\ Linked(edges, 2, 3) /\ ~Linked(edges, 3, 1)
    /\ PathTranslationOnly(compile_kinematic_tree(1, edges), 3)
    /\ propagate_world_poses(compile_kinematic_tree(1, edges), IdT).T_world[1].z = 0
    /\ propagate_world_poses(compile_kinematic_tree(1, edges), IdT).T_world[2].z = 1000
    /\ propagate_world_poses(compile_kinematic_tree(1, edges), IdT).T_world[3].z = 3000

\* ------------------------------------------- check_attach_feasible on its own
\* poses of module 2 in front of module 1: every turn about Z in steps of 45
\* degrees, upright or upside down, in contact with module 1 or 1, 2, 1000 or
\* 1001 mm away
FeasPoses ==
    {[k |-> k, f |-> f, z |-> Spacing + d] : k \in 0..7, f \in {0, 1}, d \in {0, 1, 2, 1000, 1001}}

\* FeasibilityParams with each threshold on, above and below a value the
\* poses produce
FeasParamSet ==
    {[pos_tol |-> pt, z_dot_max |-> zd, yaw_tol_deg |-> yt, enable_local_solve |-> FALSE] :
        pt \in {1, 1000}, zd \in {-1000, -999, 0}, yt \in {2, 45}}

\* a connector of module 1 against a connector of module 2
FeasPairs == {<<SiteOf(1, ha), SiteOf(2, hb)>> : ha \in Halves, hb \in Halves}

InitFeas ==
    /\ edges = <<>>
    /\ \E pose \in FeasPoses :
           T_world = (1 :> IdT) @@ (2 :> pose) @@ (4 :> [k |-> 0, f |-> 0, z |-> 2 * Spacing])
    /\ q_by_module \in {[m \in Modules |-> IF m = 2 THEN q ELSE <<0, 0>>] :
                           q \in {<<0, 0>>, <<1, 0>>, <<0, 1>>}}
    /\ root_id = 1
    /\ steps = 0
    /\ last = LastOf("init", "", NoSite, NoSite, None, NoneT, NoParams, "",
                     NoAttempt(<<>>, <<>>, <<>>, NoResult), NoEventResult)
    /\ context = NoContext
    /\ trace = <<>>
    /\ callers = NoCallers
    /\ lock = NoLock

\* check_attach_feasible applied once to the site poses of the executor
CheckFeasible(a, b, params) ==
    /\ last.op = "init"
    /\ \E r \in {check_attach_feasible(get_site_Tw(T_world, q_by_module, a),
                                       get_site_Tw(T_world, q_by_module, b), params)} :
        last' = LastOf("check_attach_feasible", "", a, b, None, NoneT, params, "",
                       NoAttempt(edges, T_world, q_by_module, r), NoEventResult)
    /\ UNCHANGED <<edges, T_world, q_by_module, root_id, steps, context, trace, callers, lock>>

NextFeas == \E p \in FeasPairs, params \in FeasParamSet : CheckFeasible(p[1], p[2], params)

SpecFeas == InitFeas /\ [][NextFeas]_vars

\* the metrics of the pair of sites named by the last call
LastMetrics(yaw) ==
    compute_constraint_metrics(get_site_Tw(T_world, q_by_module, last.a),
                               get_site_Tw(T_world, q_by_module, last.b), yaw)

\* absolute residual yaw of the last call's pair for candidate number i
AbsResidual(i) == Abs(LastMetrics(yaw_candidates_deg[i]).rel_yaw_deg)

\* the least absolute residual yaw over the candidates
MinAbsResidual ==
    CHOOSE r \in {AbsResidual(i) : i \in 1..Len(yaw_candidates_deg)} :
        \A i \in 1..Len(yaw_candidates_deg) : r <= AbsResidual(i)

PosGateFails == LastMetrics(0).pos_err > last.params.pos_tol
NormalGateFails == LastMetrics(0).z_dot > last.params.z_dot_max
YawGateFails == MinAbsResidual > last.params.yaw_tol_deg

\* C19: check_attach_feasible reports the first failing gate in the order
\* position, normal, yaw: reason "pos" iff pos_err > pos_tol; otherwise
\* "normal" iff z_dot > z_dot_max; otherwise "yaw" iff the least absolute
\* residual yaw over the candidates > yaw_tol_deg; the result is feasible iff
\* no gate fails, a value equal to its threshold passing; a yaw candidate is
\* reported exactly when the position and normal gates both passed.
C19_GateOrder ==
    last.op = "check_attach_feasible" =>
        /\ (last.reason = "pos") <=> PosGateFails
        /\ (last.reason = "normal") <=> (~PosGateFails /\ NormalGateFails)
        /\ (last.reason = "yaw") <=> (~PosGateFails /\ ~NormalGateFails /\ YawGateFails)
        /\ last.feasible <=> (~PosGateFails /\ ~NormalGateFails /\ ~YawGateFails)
        /\ last.feasible <=> (last.reason = "")
        /\ (last.best_yaw_deg # None) <=> (~PosGateFails /\ ~NormalGateFails)

\* all three gates would fail and the position gate is the one reported
C19_Witness ==
    /\ last.op = "check_attach_feasible"
    /\ PosGateFails /\ NormalGateFails /\ YawGateFails
    /\ last.reason = "pos" /\ ~last.feasible /\ last.best_yaw_deg = None

\* every measured value sits on its threshold and the pair is feasible
C19_WitnessInclusive ==
    /\ last.op = "check_attach_feasible"
    /\ LastMetrics(0).pos_err = last.params.pos_tol
    /\ LastMetrics(0).z_dot = last.params.z_dot_max
    /\ MinAbsResidual = last.params.yaw_tol_deg
    /\ last.feasible /\ last.reason = ""

\* C20: the yaw candidate chosen by check_attach_feasible has the least
\* absolute residual of all candidates, and of several candidates with that
\* least absolute residual the first in the order (0, 90, 180, 270) is chosen.
C20_FirstMinimalCandidate ==
    (last.op = "check_attach_feasible" /\ last.best_yaw_deg # None) =>
        \E i \in 1..Len(yaw_candidates_deg) :
            /\ last.best_yaw_deg = yaw_candidates_deg[i]
            /\ AbsResidual(i) = MinAbsResidual
            /\ \A j \in 1..(i - 1) : AbsResidual(j) > MinAbsResidual

\* candidates 90 and 180 both leave 45 degrees, candidate 0 leaves more, and
\* 90 is chosen
C20_Witness ==
    /\ last.op = "check_attach_feasible"
    /\ AbsResidual(1) > AbsResidual(2)
    /\ AbsResidual(2) = AbsResidual(3)
    /\ AbsResidual(2) = MinAbsResidual
    /\ last.best_yaw_deg = 90

\* the FeasibilityResult of the last check_attach_feasible call
LastFeasibilityResult ==
    check_attach_feasible(get_site_Tw(T_world, q_by_module, last.a),
                          get_site_Tw(T_world, q_by_module, last.b), last.params)

\* C21: every FeasibilityResult returned by check_attach_feasible, feasible
\* or failing at the position, normal or yaw gate, carries the residual table
\* with one entry per yaw candidate.
C21_FullCandidateTable ==
    last.op = "check_attach_feasible" =>
        /\ Len(LastFeasibilityResult.candidate_table) = Len(yaw_candidates_deg)
        /\ \A i \in 1..Len(yaw_candidates_deg) :
               LastFeasibilityResult.candidate_table[i].yaw_deg = yaw_candidates_deg[i]

\* C21 restricted to the results that passed the position and normal gates
C21_TableWhenYawGateReached ==
    (last.op = "check_attach_feasible" /\ last.reason \in {"", "yaw"}) =>
        /\ Len(LastFeasibilityResult.candidate_table) = Len(yaw_candidates_deg)
        /\ \A i \in 1..Len(yaw_candidates_deg) :
               LastFeasibilityResult.candidate_table[i].yaw_deg = yaw_candidates_deg[i]

\* C22: auto_attach returns occupied_a or occupied_b and leaves the graph as
\* it is when a site is occupied; otherwise it returns the result of the
\* check, and adds exactly one active edge between a and b carrying the
\* chosen yaw snap if and only if that result is feasible, leaving the graph
\* unchanged when it is infeasible.
C22_AutoAttach ==
    [][last'.op = "auto_attach" =>
        /\ last'.raised = ""
        /\ ~site_is_free(edges, last'.a) =>
               /\ last'.reason = "occupied_a" /\ ~last'.feasible /\ edges' = edges
        /\ (site_is_free(edges, last'.a) /\ ~site_is_free(edges, last'.b)) =>
               /\ last'.reason = "occupied_b" /\ ~last'.feasible /\ edges' = edges
        /\ (site_is_free(edges, last'.a) /\ site_is_free(edges, last'.b)) =>
               /\ last'.reason \in {"", "pos", "normal", "yaw"}
               /\ last'.feasible = check_attach_feasible(
                                       get_site_Tw(T_world, q_by_module, last'.a),
                                       get_site_Tw(T_world, q_by_module, last'.b),
                                       last'.params).feasible
               /\ last'.feasible =>
                      /\ ~is_connected(edges, last'.a, last'.b)
                      /\ is_connected(edges', last'.a, last'.b)
                      /\ Len(active_edges(edges')) = Len(active_edges(edges)) + 1
                      /\ ActiveKeys(edges') = ActiveKeys(edges) \cup {{last'.a, last'.b}}
                      /\ edges'[KeyIndex(edges', normalized(last'.a, last'.b))].yaw_snap_deg
                             = last'.best_yaw_deg
                      /\ last'.best_yaw_deg # None
               /\ ~last'.feasible => edges' = edges
    ]_vars

\* a feasible auto_attach that re-activates a pair detached before
C22_Witness ==
    /\ last.op = "auto_attach" /\ last.feasible /\ last.raised = ""
    /\ is_connected(edges, last.a, last.b)
    /\ Len(edges) = 1 /\ steps = 3

\* ------------------------------------------------------------ attach planner
\* the connector sites of a module: site_naming.SITE_NAMES
SITE_NAMES == {<<"ma", "right">>, <<"ma", "bottom">>, <<"mb", "left">>, <<"mb", "top">>}

\* list(executor.q_by_module.keys()): the joint table is keyed in ascending
\* module id
ModuleList(qs) == SortedSeq(DOMAIN qs)

\* the body of the double loop of find_attach_candidates for one (m1, m2)
CandidateOf(E, m1, m2) ==
    LET a == [module_id |-> m1, half |-> "ma", site |-> "right"]
        b == [module_id |-> m2, half |-> "mb", site |-> "left"]
    IN  IF m1 # m2 /\ site_is_free(E, a) /\ site_is_free(E, b)
        THEN << <<a, b>> >>
        ELSE <<>>

\* the double loop over modules x modules, i counting the iterations
RECURSIVE CandidateLoop(_, _, _)
CandidateLoop(E, modules, i) ==
    IF i > Len(modules) * Len(modules) THEN <<>>
    ELSE CandidateOf(E, modules[((i - 1) \div Len(modules)) + 1],
                        modules[((i - 1) % Len(modules)) + 1])
         \o CandidateLoop(E, modules, i + 1)

\* find_attach_candidates(graph, modules)
find_attach_candidates(E, modules) == CandidateLoop(E, modules, 1)

\* best_pos_err = inf (-1), best_yaw_deg = best_T_a_b = best_a = best_b = None
NoBest == [pos_err |-> -1, yaw |-> None, T |-> NoneT, a |-> NoSite, b |-> NoSite]

\* the comparison that lets a feasible candidate replace the running best:
\* a smaller position error, or an equal one and |residual| below
\* abs(best_yaw_deg or 0)
PlanReplaces(best, feas) ==
    \/ best.pos_err = -1
    \/ feas.pos_err < best.pos_err
    \/ /\ feas.pos_err = best.pos_err
       /\ Abs(feas.residual_yaw_deg) < Abs(IF best.yaw = None THEN 0 ELSE best.yaw)

\* one pass of the loop over the candidates, feas being the check's result
PlanUpdate(best, a, b, Tw_a, Tw_b, feas) ==
    IF feas.feasible /\ PlanReplaces(best, feas)
    THEN [pos_err |-> feas.pos_err, yaw |-> feas.best_yaw_deg,
          T |-> Compose(Inv(Tw_a), Tw_b), a |-> a, b |-> b]
    ELSE best

PlanVisit(params, best, a, b, Tw_a, Tw_b) ==
    PlanUpdate(best, a, b, Tw_a, Tw_b, check_attach_feasible(Tw_a, Tw_b, params))

\* the loop over the candidates
RECURSIVE PlanLoop(_, _, _, _, _)
PlanLoop(Tw, qs, params, cands, best) ==
    IF cands = <<>> THEN best
    ELSE PlanLoop(Tw, qs, params, Tail(cands),
                  PlanVisit(params, best, Head(cands)[1], Head(cands)[2],
                            get_site_Tw(Tw, qs, Head(cands)[1]),
                            get_site_Tw(Tw, qs, Head(cands)[2])))

\* the event returned as None
NoEvent == [kind |-> "none", a |-> NoSite, b |-> NoSite, yaw_snap_deg |-> None, T_a_b |-> NoneT]

\* what one plan_one_attach call returned or raised and did on the way
PlanOutcome(event, reason, raised, qs, solver_calls, solver_success) ==
    [event |-> event, reason |-> reason, raised |-> raised, q_by_module |-> qs,
     solver_calls |-> solver_calls, solver_success |-> solver_success]

\* after solve_local_attach: on success the code reads solve_result.q_a, a
\* field LocalSolveResult does not have (its fields are q_new_a, q_new_b)
AfterPlanSolve(best, solve) ==
    IF solve.success
    THEN PlanOutcome(NoEvent, "", "AttributeError", solve.q_by_module, 1, TRUE)
    ELSE PlanOutcome(AttachEvent(best.a, best.b, best.yaw, best.T), "", "",
                     solve.q_by_module, 1, FALSE)

\* plan_one_attach after the loop; va and vb are the joint values the local
\* solver ends with for the halves that carry the two sites
PlanFinish(Tw, qs, params, enable_local_solve, va, vb, best) ==
    IF best.a = NoSite
    THEN PlanOutcome(NoEvent, "no_feasible_pair", "", qs, 0, FALSE)
    ELSE IF enable_local_solve /\ 2 * best.pos_err > params.pos_tol
    THEN AfterPlanSolve(best,
             solve_local_attach(Tw, qs, best.a, best.b,
                 [pos_tol |-> params.pos_tol, yaw_tol_deg |-> params.yaw_tol_deg,
                  z_dot_tol_above |-> params.z_dot_max],
                 [qs[best.a.module_id] EXCEPT ![1] = va],
                 [qs[best.b.module_id] EXCEPT ![2] = vb]))
    ELSE PlanOutcome(AttachEvent(best.a, best.b, best.yaw, best.T), "", "", qs, 0, FALSE)

PlanCandidates(Tw, qs, params, enable_local_solve, va, vb, cands) ==
    IF cands = <<>>
    THEN PlanOutcome(NoEvent, "no_candidates", "", qs, 0, FALSE)
    ELSE PlanFinish(Tw, qs, params, enable_local_solve, va, vb,
                    PlanLoop(Tw, qs, params, cands, NoBest))

\* plan_one_attach(graph, executor, params, enable_local_solve=...)
plan_one_attach(E, Tw, qs, params, enable_local_solve, va, vb) ==
    PlanCandidates(Tw, qs, params, enable_local_solve, va, vb,
                   find_attach_candidates(E, ModuleList(qs)))

\* FeasibilityParams handed to the planner: a tight and a loose position
\* tolerance, a tight yaw tolerance and one that admits a residual of 45 degrees
PlanParamSet ==
    {[pos_tol |-> pt, z_dot_max |-> -999, yaw_tol_deg |-> yt, enable_local_solve |-> FALSE] :
        pt \in {1, 1000}, yt \in {2, 45}}

\* plan_one_attach(graph, executor, params, enable_local_solve=enable)
PlanOneAttach(params, enable, va, vb) ==
    /\ steps < MaxSteps
    /\ \E r \in {plan_one_attach(edges, T_world, q_by_module, params, enable, va, vb)} :
        /\ steps' = steps + 1
        /\ q_by_module' = r.q_by_module
        /\ last' = LastOf("plan_one_attach", r.event.kind, r.event.a, r.event.b,
                          r.event.yaw_snap_deg, r.event.T_a_b,
                          [params EXCEPT !.enable_local_solve = enable], r.raised,
                          AttemptOutcome(edges, T_world, r.q_by_module, NoResult, r.raised,
                                         "none", r.solver_calls, r.solver_success,
                                         FALSE, NoMetrics, FALSE),
                          EventResult(r.event.kind = "attach", r.reason, 0))
        /\ UNCHANGED <<edges, T_world, root_id, context, trace, callers, lock>>

NextPlan ==
    \/ \E p \in Pairs : GraphApply(AttachEvent(p[1], p[2], 0, IdT))
    \/ \E p \in Pairs : GraphApply(DetachEvent(p[1], p[2]))
    \/ \E i \in 1..2, v \in QVals : UpdateQ(2, i, v)
    \/ \E params \in PlanParamSet, enable \in BOOLEAN :
          \E va \in (IF enable THEN QVals ELSE {0}), vb \in (IF enable THEN QVals ELSE {0}) :
             PlanOneAttach(params, enable, va, vb)

SpecPlan == Init /\ [][NextPlan]_vars

\* the result of the feasibility check of a candidate pair c in the current state
CandidateCheck(c, params) ==
    check_attach_feasible(get_site_Tw(T_world, q_by_module, c[1]),
                          get_site_Tw(T_world, q_by_module, c[2]), params)

\* the candidate pairs of the current state
CurrentCandidates ==
    LET cands == find_attach_candidates(edges, ModuleList(q_by_module))
    IN  {cands[i] : i \in 1..Len(cands)}

\* C23: among all feasible candidates plan_one_attach selects the one with
\* minimal position error, and among candidates with equal minimal position
\* error the one with minimal absolute residual yaw; the returned event's
\* endpoints and yaw snap are those of that candidate.
C23_PlanSelectsBest ==
    [][(last'.op = "plan_one_attach" /\ last'.raised = "" /\ last'.kind = "attach") =>
        LET chosen == <<last'.a, last'.b>>
            picked == CandidateCheck(chosen, last'.params)
        IN  /\ chosen \in CurrentCandidates
            /\ picked.feasible
            /\ last'.yaw_snap_deg = picked.best_yaw_deg
            /\ \A c \in CurrentCandidates :
                   CandidateCheck(c, last'.params).feasible =>
                       \/ picked.pos_err < CandidateCheck(c, last'.params).pos_err
                       \/ /\ picked.pos_err = CandidateCheck(c, last'.params).pos_err
                          /\ Abs(picked.residual_yaw_deg)
                                 <= Abs(CandidateCheck(c, last'.params).residual_yaw_deg)
    ]_vars

\* C23 without the tie-break: the selected candidate is feasible, has the
\* least position error of the feasible candidates, and the event carries
\* its endpoints and yaw snap
C23_PlanSelectsLeastPosErr ==
    [][(last'.op = "plan_one_attach" /\ last'.raised = "" /\ last'.kind = "attach") =>
        LET chosen == <<last'.a, last'.b>>
            picked == CandidateCheck(chosen, last'.params)
        IN  /\ chosen \in CurrentCandidates
            /\ picked.feasible
            /\ last'.yaw_snap_deg = picked.best_yaw_deg
            /\ \A c \in CurrentCandidates :
                   CandidateCheck(c, last'.params).feasible =>
                       picked.pos_err <= CandidateCheck(c, last'.params).pos_err
    ]_vars

\* C24: for either value of enable_local_solve, plan_one_attach never raises
\* and never changes the graph, and returns exactly one of: an attach event
\* with a yaw snap and a transform whose two endpoint sites are free, with an
\* empty reason; no event and no_candidates when there is no candidate pair;
\* no event and no_feasible_pair when there are candidates and none is feasible.
C24_PlanNeverRaises ==
    [][last'.op = "plan_one_attach" =>
        /\ last'.raised = ""
        /\ edges' = edges
        /\ \/ /\ last'.kind = "attach" /\ last'.ev_reason = ""
              /\ last'.yaw_snap_deg # None /\ last'.T_a_b # NoneT
              /\ site_is_free(edges, last'.a) /\ site_is_free(edges, last'.b)
              /\ \E c \in CurrentCandidates : CandidateCheck(c, last'.params).feasible
           \/ /\ last'.kind = "none" /\ last'.ev_reason = "no_candidates"
              /\ CurrentCandidates = {}
           \/ /\ last'.kind = "none" /\ last'.ev_reason = "no_feasible_pair"
              /\ CurrentCandidates # {}
              /\ \A c \in CurrentCandidates : ~CandidateCheck(c, last'.params).feasible
    ]_vars

\* C24 for the calls that did not raise
C24_PlanResultWhenNotRaised ==
    [][(last'.op = "plan_one_attach" /\ last'.raised = "") =>
        /\ edges' = edges
        /\ \/ /\ last'.kind = "attach" /\ last'.ev_reason = ""
              /\ last'.yaw_snap_deg # None /\ last'.T_a_b # NoneT
              /\ site_is_free(edges, last'.a) /\ site_is_free(edges, last'.b)
              /\ \E c \in CurrentCandidates : CandidateCheck(c, last'.params).feasible
           \/ /\ last'.kind = "none" /\ last'.ev_reason = "no_candidates"
              /\ CurrentCandidates = {}
           \/ /\ last'.kind = "none" /\ last'.ev_reason = "no_feasible_pair"
              /\ CurrentCandidates # {}
              /\ \A c \in CurrentCandidates : ~CandidateCheck(c, last'.params).feasible
    ]_vars

\* the pairs (free site on the A-half of m1, free site on the B-half of m2),
\* m1 # m2, over the modules of the joint table
FreeHalfPairs ==
    {<<[module_id |-> m1, half |-> "ma", site |-> sa[2]],
       [module_id |-> m2, half |-> "mb", site |-> sb[2]]>> :
        m1 \in DOMAIN q_by_module, m2 \in DOMAIN q_by_module,
        sa \in {s \in SITE_NAMES : s[1] = "ma"}, sb \in {s \in SITE_NAMES : s[1] = "mb"}}
    \ {c \in [1..2 -> [module_id : DOMAIN q_by_module, half : Halves,
                       site : {"right", "bottom", "left", "top"}]] :
          \/ c[1].module_id = c[2].module_id
          \/ ~site_is_free(edges, c[1])
          \/ ~site_is_free(edges, c[2])}

\* C25: find_attach_candidates returns exactly the pairs (free site on the
\* A-half of m1, free site on the B-half of m2) with m1 # m2: every returned
\* pair has both sites free and lies on two different modules, and no such
\* pair is omitted.
C25_AllFreePairs == CurrentCandidates = FreeHalfPairs

\* C25, first half only: every returned pair is a free A-half site and a free
\* B-half site of two different modules
C25_ReturnedPairsAreFree == CurrentCandidates \subseteq FreeHalfPairs

\* C26: when candidates exist, none is feasible and local solve is enabled,
\* plan_one_attach runs the local attach solver before it returns
\* no_feasible_pair.
C26_RetryBeforeNoFeasiblePair ==
    (/\ last.op = "plan_one_attach"
     /\ last.params.enable_local_solve
     /\ last.ev_reason = "no_feasible_pair") => last.solver_calls >= 1

\* ---------------------------------------------------------- simulation loop
\* simulate_modular_reconfig(num_steps, detach_step=None, schedule): the path
\* has num_steps + 1 configurations, one per step of the loop
num_steps == 3

\* the modules of the ExecutionContext
SimModules == {1, 2, 3}

\* generate_dummy_path: x of module mid at a step, in mm (y = z = 0); the
\* modules start 300 mm apart and move 200 mm in num_steps steps (fractions
\* of a millimetre dropped)
PathX(step, mid) == 300 * (mid - 1) + (200 * step) \div num_steps

\* module_states that counts the endpoints of every edge record, active or not
module_states_all_records(E, ids) ==
    LET connected == {E[i].key.a.module_id : i \in 1..Len(E)}
                     \cup {E[i].key.b.module_id : i \in 1..Len(E)}
    IN  [mid \in ids |-> IF mid \in connected THEN "attached" ELSE "detached"]

\* module_states(all_module_ids)
module_states(E, ids) ==
    LET connected == {E[i].key.a.module_id : i \in {j \in 1..Len(E) : E[j].active}}
                     \cup {E[i].key.b.module_id : i \in {j \in 1..Len(E) : E[j].active}}
    IN  [mid \in ids |-> IF mid \in connected THEN "attached" ELSE "detached"]

\* update_attached_modules that moves every module, whatever its state
update_all_modules(positions, states, step) ==
    [mid \in DOMAIN positions |-> <<PathX(step, mid), 0, 0>>]

\* update_attached_modules(context, config)
update_attached_modules(positions, states, step) ==
    [mid \in DOMAIN positions |->
        IF states[mid] = "attached" THEN <<PathX(step, mid), 0, 0>> ELSE positions[mid]]

\* the innermost loop of apply_repulsion: m1 is pushed 10 mm away from m2
\* along every axis on which they are less than 50 mm apart
Repel(p1, p2) ==
    [axis \in 1..3 |->
        IF Abs(p1[axis] - p2[axis]) < 50
        THEN p1[axis] + (IF p1[axis] > p2[axis] THEN 10 ELSE -10)
        ELSE p1[axis]]

\* the double loop of apply_repulsion over the modules in dict order, i
\* counting the iterations; positions are adjusted in place
RECURSIVE RepulsionLoop(_, _, _, _)
RepulsionLoop(positions, states, ids, i) ==
    IF i > Len(ids) * Len(ids) THEN positions
    ELSE LET m1 == ids[((i - 1) \div Len(ids)) + 1]
             m2 == ids[((i - 1) % Len(ids)) + 1]
         IN  IF states[m1] # "attached" \/ states[m2] # "attached" \/ m1 >= m2
             THEN RepulsionLoop(positions, states, ids, i + 1)
             ELSE RepulsionLoop([positions EXCEPT ![m1] = Repel(positions[m1], positions[m2])],
                                states, ids, i + 1)

\* apply_repulsion(context)
apply_repulsion(positions, states) ==
    RepulsionLoop(positions, states, SortedSeq(DOMAIN positions), 1)

\* check_context_collisions(context): two modules closer than 200 mm
check_context_collisions(positions) ==
    \E m1 \in DOMAIN positions, m2 \in DOMAIN positions :
        /\ m1 < m2
        /\ (positions[m1][1] - positions[m2][1]) * (positions[m1][1] - positions[m2][1])
           + (positions[m1][2] - positions[m2][2]) * (positions[m1][2] - positions[m2][2])
           + (positions[m1][3] - positions[m2][3]) * (positions[m1][3] - positions[m2][3])
           < 200 * 200

\* FeasibilityParams(enable_local_solve=True, pos_tol=1e-3, yaw_tol_deg=5,
\* z_dot_max=-0.999) of the simulation loop
SimParams == [pos_tol |-> 1, z_dot_max |-> -999, yaw_tol_deg |-> 5, enable_local_solve |-> TRUE]

\* the joint vector the local solver ends with for the module of site s: the
\* joint of the half that carries s at value v
SolverEnd(qs, s, v) ==
    IF s.module_id \in DOMAIN qs
    THEN [qs[s.module_id] EXCEPT ![IF s.half = "ma" THEN 1 ELSE 2] = v]
    ELSE <<0, 0>>

\* the state of graph and executor inside the loop over the events of a
\* step, the EventResults obtained so far, and the exception that ended it
Scheduled(E, Tw, qs, results, raised) ==
    [edges |-> E, T_world |-> Tw, q_by_module |-> qs, results |-> results, raised |-> raised]

\* one pass of the loop over schedule[step_idx], r being what apply_event
\* did: its exception leaves the loop; otherwise the result is appended to
\* step_record.event_results, a name that is not bound before the first
\* pass of the simulation loop has ended
AfterEvent(acc, r, step_idx) ==
    IF r.raised # ""
    THEN Scheduled(r.edges, r.T_world, r.q_by_module, acc.results, r.raised)
    ELSE IF step_idx = 0
    THEN Scheduled(r.edges, r.T_world, r.q_by_module, acc.results, "UnboundLocalError")
    ELSE Scheduled(r.edges, r.T_world, r.q_by_module,
                   Append(acc.results, r.event_result), "")

\* the loop over schedule[step_idx] that goes on after an exception
RECURSIVE ApplyScheduled_keep_going(_, _, _, _, _, _)
ApplyScheduled_keep_going(acc, root, evs, va, vb, step_idx) ==
    IF evs = <<>> THEN acc
    ELSE ApplyScheduled_keep_going(
             AfterEvent(acc,
                 apply_event(acc.edges, acc.T_world, acc.q_by_module, root, Head(evs),
                             SimParams, SolverEnd(acc.q_by_module, Head(evs).a, va),
                             SolverEnd(acc.q_by_module, Head(evs).b, vb)),
                 step_idx),
             root, Tail(evs), va, vb, step_idx)

\* the loop over schedule[step_idx]
RECURSIVE ApplyScheduled(_, _, _, _, _, _)
ApplyScheduled(acc, root, evs, va, vb, step_idx) ==
    IF evs = <<>> \/ acc.raised # "" THEN acc
    ELSE ApplyScheduled(
             AfterEvent(acc,
                 apply_event(acc.edges, acc.T_world, acc.q_by_module, root, Head(evs),
                             SimParams, SolverEnd(acc.q_by_module, Head(evs).a, va),
                             SolverEnd(acc.q_by_module, Head(evs).b, vb)),
                 step_idx),
             root, Tail(evs), va, vb, step_idx)

\* ExecutionStep(step_index, positions, states, collision, events);
\* event_results starts empty
ExecutionStep(step_index, positions, states, collision, events) ==
    [step_index |-> step_index, positions |-> positions, states |-> states,
     collision |-> collision, events |-> events, event_results |-> <<>>]

\* step_record.event_results.append(result): the results of the events of a
\* step go to the record of the step before
AppendResults(tr, results) ==
    IF tr = <<>> \/ results = <<>> THEN tr
    ELSE [tr EXCEPT ![Len(tr)].event_results = tr[Len(tr)].event_results \o results]

\* the events the schedules are made of: detach and attach of the two edges
\* of the initial chain, an attach that reuses a site of the first edge, an
\* attach left to be filled in, and attaches naming module 4, which the
\* executor does not have
SimEvents ==
    {DetachEvent(Site(1, "ma", "right"), Site(2, "mb", "left")),
     DetachEvent(Site(2, "ma", "right"), Site(3, "mb", "left")),
     AttachEvent(Site(2, "ma", "right"), Site(3, "mb", "left"), 0, IdT),
     AttachEvent(Site(1, "ma", "right"), Site(3, "mb", "left"), 0, IdT),
     AttachEvent(Site(2, "ma", "right"), Site(3, "mb", "left"), None, NoneT),
     AttachEvent(Site(1, "mb", "left"), Site(4, "ma", "right"), None, NoneT),
     AttachEvent(Site(1, "ma", "right"), Site(4, "mb", "left"), 0, IdT)}

\* schedule[step_idx]: no entry, a list of one event, or a list of two events
\* of which at least one is a detach
SimEventLists ==
    {<<>>} \cup {<<e>> : e \in SimEvents}
    \cup {<<e1, e2>> : e1 \in {e \in SimEvents : e.kind = "detach"}, e2 \in SimEvents}
    \cup {<<e1, e2>> : e1 \in SimEvents, e2 \in {e \in SimEvents : e.kind = "detach"}}

\* the state built by simulate_modular_reconfig before its loop: the
\* context, the executor with the modules at their first positions, and the
\* graph with the chain 1-2-3
InitSim ==
    /\ context = [positions |-> [mid \in SimModules |-> <<300 * (mid - 1), 0, 0>>],
                  states    |-> [mid \in SimModules |-> "attached"]]
    /\ T_world = [mid \in SimModules |-> [k |-> 0, f |-> 0, z |-> 300 * (mid - 1)]]
    /\ q_by_module = [mid \in SimModules |-> <<0, 0>>]
    /\ edges = apply(apply(<<>>, AttachEvent(Site(1, "ma", "right"), Site(2, "mb", "left"),
                                             0, IdT)).edges,
                     AttachEvent(Site(2, "ma", "right"), Site(3, "mb", "left"), 0, IdT)).edges
    /\ root_id = 1
    /\ steps = 0
    /\ trace = <<>>
    /\ callers = NoCallers
    /\ lock = NoLock
    /\ last = LastOf("init", "", NoSite, NoSite, None, NoneT, NoParams, "",
                     NoAttempt(<<>>, <<>>, <<>>, NoResult), NoEventResult)
              @@ [scheduled |-> <<>>, results |-> <<>>]

\* the rest of one pass of the simulation loop after the events of the step
\* ran without an exception: states from the graph, positions of the
\* attached modules from the path, repulsion, and the record of the step
\* (the trace messages of the events are left out of the record)
SimRecord(step_idx, E, positions, states, results) ==
    ExecutionStep(step_idx,
                  apply_repulsion(update_attached_modules(positions, states, step_idx), states),
                  states,
                  check_context_collisions(
                      apply_repulsion(update_attached_modules(positions, states, step_idx),
                                      states)),
                  <<>>)

\* one pass of the simulation loop with schedule[step_idx] = evs; an
\* exception ends the run
SimStep(evs, va, vb) ==
    /\ steps <= num_steps
    /\ last.raised = ""
    /\ \E ap \in {ApplyScheduled(Scheduled(edges, T_world, q_by_module, <<>>, ""),
                                 root_id, evs, va, vb, steps)} :
        /\ edges' = ap.edges
        /\ T_world' = ap.T_world
        /\ q_by_module' = ap.q_by_module
        /\ last' = LastOf("simulate_step", "", NoSite, NoSite, None, NoneT, SimParams,
                          ap.raised, NoAttempt(ap.edges, ap.T_world, ap.q_by_module, NoResult),
                          NoEventResult)
                   @@ [scheduled |-> evs, results |-> ap.results]
        /\ IF ap.raised # ""
           THEN UNCHANGED <<steps, context, trace>>
           ELSE \E rec \in {SimRecord(steps, ap.edges, context.positions,
                                      module_states(ap.edges, DOMAIN context.positions),
                                      ap.results)} :
                   /\ steps' = steps + 1
                   /\ context' = [positions |-> rec.positions, states |-> rec.states]
                   /\ trace' = Append(AppendResults(trace, ap.results), rec)
        /\ UNCHANGED <<root_id, callers, lock>>

NextSim == \E evs \in SimEventLists, va \in QVals, vb \in QVals : SimStep(evs, va, vb)

SpecSim == InitSim /\ [][NextSim]_vars

\* ------------------------------------------------ events of a simulation step
\* the last pass of the simulation loop had the events d, a scheduled in this
\* order, d detaching an edge that was active and a an attach with its yaw
\* and transform given that reuses a site of that edge, its other site free
DetachThenAttach(d, a) ==
    /\ d.kind = "detach" /\ {d.a, d.b} \in ActiveKeys(edges)
    /\ a.kind = "attach" /\ a.yaw_snap_deg # None /\ a.T_a_b # NoneT
    /\ {a.a, a.b} \cap {d.a, d.b} # {}
    /\ \A s \in {a.a, a.b} \ {d.a, d.b} : site_is_free(edges, s)
    /\ a.a.module_id \in DOMAIN T_world /\ a.b.module_id \in DOMAIN T_world

OccupiedReasons == {"occupied_a", "occupied_b"}

\* C27: the events scheduled for one simulation step are all applied, one at
\* a time in the order of the list, each against the graph left by the one
\* before: after a detach of an active edge, an attach in the same step that
\* reuses one of its sites is not refused as occupied, and when the attach
\* comes first it is refused as occupied
C27_EventsAppliedInOrder ==
    [][\A evs \in SimEventLists :
          (last'.op = "simulate_step" /\ last'.scheduled = evs /\ Len(evs) = 2) =>
             /\ DetachThenAttach(evs[1], evs[2]) =>
                   /\ last'.raised = ""
                   /\ Len(last'.results) = 2
                   /\ last'.results[1].ok
                   /\ last'.results[2].reason \notin OccupiedReasons
             /\ DetachThenAttach(evs[2], evs[1]) =>
                   /\ last'.raised = ""
                   /\ Len(last'.results) = 2
                   /\ last'.results[1].reason \in OccupiedReasons
                   /\ last'.results[2].ok]_vars

\* C27 for the passes after the first one (step_idx >= 1)
C27_EventsAppliedInOrder_AfterFirstStep ==
    [][\A evs \in SimEventLists :
          (steps >= 1 /\ last'.op = "simulate_step" /\ last'.scheduled = evs /\ Len(evs) = 2) =>
             /\ DetachThenAttach(evs[1], evs[2]) =>
                   /\ last'.raised = ""
                   /\ Len(last'.results) = 2
                   /\ last'.results[1].ok
                   /\ last'.results[2].reason \notin OccupiedReasons
             /\ DetachThenAttach(evs[2], evs[1]) =>
                   /\ last'.raised = ""
                   /\ Len(last'.results) = 2
                   /\ last'.results[1].reason \in OccupiedReasons
                   /\ last'.results[2].ok]_vars

\* a pass after the first one applied a detach and then an attach on the
\* same two sites, and the attach went through
C27_WitnessDetachThenAttach ==
    /\ last.op = "simulate_step" /\ Len(last.results) = 2
    /\ last.scheduled[1].kind = "detach" /\ last.results[1].ok
    /\ last.scheduled[2].kind = "attach" /\ last.results[2].ok
    /\ {last.scheduled[1].a, last.scheduled[1].b} = {last.scheduled[2].a, last.scheduled[2].b}

\* a pass after the first one applied the attach first and it was refused as
\* occupied, and then the detach
C27_WitnessAttachThenDetach ==
    /\ last.op = "simulate_step" /\ Len(last.results) = 2
    /\ last.scheduled[1].kind = "attach" /\ last.results[1].reason \in OccupiedReasons
    /\ last.scheduled[2].kind = "detach" /\ last.results[2].ok
    /\ {last.scheduled[1].a, last.scheduled[1].b} = {last.scheduled[2].a, last.scheduled[2].b}

\* ------------------------------------------- detached modules in the records
\* C28: in a scheduled simulation, a module that is not an endpoint of any
\* active edge after the events of a step is marked detached in the record
\* of that step, and its recorded position is the one it had before the
\* step (the position of the previous record); so it stays detached and
\* where it was until an attach makes it an endpoint of an active edge again
C28_DetachedModuleFrozen ==
    [][(last'.op = "simulate_step" /\ last'.raised = "") =>
          \A mid \in SimModules :
             (\A key \in ActiveKeys(edges') : \A s \in key : s.module_id # mid) =>
                /\ trace'[Len(trace')].states[mid] = "detached"
                /\ trace'[Len(trace')].positions[mid] = context.positions[mid]
                /\ trace # <<>> =>
                      trace'[Len(trace')].positions[mid] = trace[Len(trace)].positions[mid]]_vars

\* module 3 was detached in step 1, stayed where it was in step 2 while
\* module 2 moved on, and was attached again in step 3 and moved
C28_Witness ==
    /\ Len(trace) = 4
    /\ trace[1].states[3] = "attached"
    /\ trace[2].states[3] = "detached" /\ trace[3].states[3] = "detached"
    /\ trace[2].positions[3] = trace[1].positions[3]
    /\ trace[3].positions[3] = trace[1].positions[3]
    /\ trace[3].positions[2] # trace[2].positions[2]
    /\ trace[4].states[3] = "attached"
    /\ trace[4].positions[3] # trace[3].positions[3]

\* --------------------------------------------- events naming an absent module
\* an attach event one of whose sites is on a module the executor does not have
NamesAbsentModule(ev) ==
    ev.kind = "attach" /\ (Missing(T_world, q_by_module, ev.a) \/ Missing(T_world, q_by_module, ev.b))

\* the module id get_site_Tw looks up first and does not find
AbsentModule(ev) ==
    IF Missing(T_world, q_by_module, ev.a) THEN ev.a.module_id ELSE ev.b.module_id

\* C29: an attach event naming a module id that the pose and joint tables of
\* the executor do not have makes apply_event, and the simulation run that
\* applies it, raise KeyError for that id; the event leaves the graph as it
\* was (as the first event of its step: the graph before the step, after a
\* detach: the graph the detach left), the events after it are not applied,
\* no record is written for the step, and no later step is run
C29_AbsentModuleRaisesKeyError ==
    [][/\ last.raised = ""
       /\ \A evs \in SimEventLists :
             (last'.op = "simulate_step" /\ last'.scheduled = evs /\ Len(evs) >= 1) =>
                /\ NamesAbsentModule(evs[1]) =>
                      /\ last'.raised = KeyError(AbsentModule(evs[1]))
                      /\ edges' = edges
                      /\ last'.results = <<>>
                      /\ trace' = trace /\ steps' = steps
                /\ (/\ steps >= 1 /\ Len(evs) = 2 /\ evs[1].kind = "detach"
                    /\ NamesAbsentModule(evs[2])) =>
                      /\ last'.raised = KeyError(AbsentModule(evs[2]))
                      /\ edges' = apply(edges, evs[1]).edges
                      /\ Len(last'.results) = 1
                      /\ trace' = trace /\ steps' = steps]_vars

\* the run of the events test: module 3 was detached in an earlier step, and
\* a later step scheduled an attach to module 4 followed by another event and
\* ended with KeyError for 4, the graph still holding the edge 1-2 only
C29_Witness ==
    /\ last.op = "simulate_step" /\ last.raised = KeyError(4)
    /\ Len(last.scheduled) = 2 /\ last.scheduled[1].b.module_id = 4
    /\ last.scheduled[2].kind = "detach"
    /\ steps = 2 /\ Len(trace) = 2 /\ trace[2].states[3] = "detached"
    /\ ActiveKeys(edges) = {{Site(1, "ma", "right"), Site(2, "mb", "left")}}

\* -------------------------------------------------------------- module_states
\* C30: after any sequence of events, module_states(ids) maps every listed
\* module id to attached if and only if the module is an endpoint of at
\* least one active edge, and to detached otherwise, whatever inactive
\* records name it; the states the simulation keeps in its context are these
C30_ModuleStates ==
    /\ \A ids \in SUBSET (SimModules \cup {4}) :
          /\ DOMAIN module_states(edges, ids) = ids
          /\ \A mid \in ids :
                /\ module_states(edges, ids)[mid] \in {"attached", "detached"}
                /\ module_states(edges, ids)[mid] = "attached" <=>
                      \E key \in ActiveKeys(edges) : \E s \in key : s.module_id = mid
    /\ (last.op = "simulate_step" /\ last.raised = "") =>
          \A mid \in SimModules :
             context.states[mid] = "attached" <=>
                \E key \in ActiveKeys(edges) : \E s \in key : s.module_id = mid

\* a step of the simulation left module 3 detached while an inactive record
\* of the graph still names it, and module 2 attached
C30_Witness ==
    /\ last.op = "simulate_step" /\ last.raised = ""
    /\ context.states = module_states(edges, SimModules)
    /\ context.states[3] = "detached" /\ context.states[2] = "attached"
    /\ \E i \in 1..Len(edges) : ~edges[i].active /\ edges[i].key.b.module_id = 3

\* ------------------------------------------- attach transactions interleaved
\* two callers run attempt_attach on the same graph and executor, one
\* operation on the graph or the pose table at a time
Callers == {1, 2}

\* the attach transaction of one caller: where it is in attempt_attach, its
\* arguments, whether it runs under the lock, its precheck result, the
\* callers whose attach it observed between their commit and the end of
\* their postcheck, whether its commit found a site occupied, the exception
\* it ended with, and whether it rolled back
Txn(pc, a, b, params, locked, pre, saw, commit_on_occupied, raised, rolled_back) ==
    [pc |-> pc, a |-> a, b |-> b, params |-> params, locked |-> locked, pre |-> pre,
     saw |-> saw, commit_on_occupied |-> commit_on_occupied, raised |-> raised,
     rolled_back |-> rolled_back]

\* the callers that have committed an attach holding site s and have not yet
\* ended their postcheck
Uncommitted(c, s) ==
    {w \in Callers \ {c} : /\ callers[w].pc \in {"committed", "propagated"}
                           /\ s \in {callers[w].a, callers[w].b}}

\* the precheck of attempt_attach up to the commit: the result the commit is
\* entered with (go) or the result returned, and the joint table left
PrecheckOnly(Tw, qs, a, b, params, qa, qb, pre) ==
    IF pre.feasible THEN [go |-> TRUE, pre |-> pre, q_by_module |-> qs]
    ELSE IF /\ params.enable_local_solve
            /\ pre.reason \in {"pos", "yaw"}
            /\ pre.z_dot <= params.z_dot_max
    THEN LET solve == solve_local_attach(Tw, qs, a, b,
                          [pos_tol |-> params.pos_tol, yaw_tol_deg |-> params.yaw_tol_deg,
                           z_dot_tol_above |-> params.z_dot_max], qa, qb)
             retry == check_attach_feasible(get_site_Tw(Tw, solve.q_by_module, a),
                                            get_site_Tw(Tw, solve.q_by_module, b), params)
         IN  IF solve.success
             THEN [go |-> retry.feasible, pre |-> retry, q_by_module |-> solve.q_by_module]
             ELSE [go |-> TRUE, pre |-> pre, q_by_module |-> solve.q_by_module]
    ELSE [go |-> FALSE, pre |-> pre, q_by_module |-> qs]

\* three modules in a row and the root as in Init, the A-half joint of
\* module 1 straight or turned by 45 degrees; no caller has started
InitConc ==
    /\ edges = <<>>
    /\ T_world = (1 :> IdT) @@ (2 :> [k |-> 0, f |-> 0, z |-> Spacing])
                 @@ (4 :> [k |-> 0, f |-> 0, z |-> 2 * Spacing])
    /\ q_by_module \in {[m \in Modules |-> IF m = 1 THEN <<v, 0>> ELSE <<0, 0>>] : v \in QVals}
    /\ root_id \in {1, 4}
    /\ steps = 0
    /\ last = LastOf("init", "", NoSite, NoSite, None, NoneT, NoParams, "",
                     NoAttempt(<<>>, <<>>, <<>>, NoResult), NoEventResult)
    /\ context = NoContext
    /\ trace = <<>>
    /\ callers = [c \in Callers |->
                     Txn("idle", NoSite, NoSite, NoParams, FALSE, NoResult, {}, FALSE, "", FALSE)]
    /\ lock = NoLock

\* the lock is released when the transaction ends
Release(c, pc) == IF pc = "done" THEN lock \ {c} ELSE lock

\* a transaction that takes the lock enters although the lock is held
MayEnter_always(locked) == TRUE

\* a transaction that takes the lock waits until nobody holds it
MayEnter(locked) == locked => lock = NoLock

\* caller c enters attempt_attach(graph, executor, a, b, params), under the
\* lock or without it, and checks the occupancy of a and b
TxnBegin(c, a, b, params, locked) ==
    /\ callers[c].pc = "idle"
    /\ MayEnter(locked)
    /\ \E free \in {site_is_free(edges, a) /\ site_is_free(edges, b)} :
        /\ callers' = [callers EXCEPT ![c] =
               Txn(IF free THEN "free" ELSE "done", a, b, params, locked,
                   IF site_is_free(edges, a)
                   THEN IF site_is_free(edges, b) THEN NoResult
                        ELSE FeasibilityResult(FALSE, None, 0, 0, 0, <<>>, "occupied_b")
                   ELSE FeasibilityResult(FALSE, None, 0, 0, 0, <<>>, "occupied_a"),
                   IF site_is_free(edges, a) THEN Uncommitted(c, b) ELSE Uncommitted(c, a),
                   FALSE, "", FALSE)]
        /\ lock' = IF locked /\ free THEN lock \cup {c} ELSE lock
    /\ UNCHANGED <<edges, T_world, q_by_module, root_id, steps, last, context, trace>>

\* the precheck on the poses of the executor, with the local solver
TxnPrecheck(c, qa, qb) ==
    /\ callers[c].pc = "free"
    /\ callers[c].locked => c \in lock
    /\ \E r \in {PrecheckOnly(T_world, q_by_module, callers[c].a, callers[c].b,
                              callers[c].params,
                              SolverEnd(q_by_module, callers[c].a, qa),
                              SolverEnd(q_by_module, callers[c].b, qb),
                              ForceFail(callers[c].a, callers[c].b, callers[c].params,
                                  ForcePass(callers[c].a, callers[c].b, callers[c].params,
                                      check_attach_feasible(
                                          get_site_Tw(T_world, q_by_module, callers[c].a),
                                          get_site_Tw(T_world, q_by_module, callers[c].b),
                                          callers[c].params))))} :
        /\ q_by_module' = r.q_by_module
        /\ callers' = [callers EXCEPT ![c].pc = IF r.go THEN "prechecked" ELSE "done",
                                      ![c].pre = r.pre,
                                      ![c].saw = {w \in Callers \ {c} :
                                                     callers[w].pc = "propagated"}]
        /\ lock' = Release(c, IF r.go THEN "prechecked" ELSE "done")
    /\ UNCHANGED <<edges, T_world, root_id, steps, last, context, trace>>

\* the commit: graph.apply(ev_attach), outside the try block
TxnCommit(c) ==
    /\ callers[c].pc = "prechecked"
    /\ callers[c].locked => c \in lock
    /\ \E ap \in {apply(edges, AttachEvent(callers[c].a, callers[c].b,
                                           callers[c].pre.best_yaw_deg, IdT))} :
        /\ edges' = ap.edges
        /\ callers' = [callers EXCEPT
               ![c].pc = IF ap.raised # "" THEN "done" ELSE "committed",
               ![c].raised = ap.raised,
               ![c].commit_on_occupied = ~(site_is_free(edges, callers[c].a)
                                           /\ site_is_free(edges, callers[c].b))]
        /\ lock' = Release(c, IF ap.raised # "" THEN "done" ELSE "committed")
    /\ UNCHANGED <<T_world, q_by_module, root_id, steps, last, context, trace>>

\* rebuild_and_propagate and executor.T_world.update(T_world_post)
TxnPropagate(c) ==
    /\ callers[c].pc = "committed"
    /\ callers[c].locked => c \in lock
    /\ T_world' = DictUpdate(T_world,
                      rebuild_and_propagate(T_world, q_by_module, edges, root_id).T_world)
    /\ callers' = [callers EXCEPT ![c].pc = "propagated"]
    /\ UNCHANGED <<edges, q_by_module, root_id, steps, last, context, trace, lock>>

\* the postcheck on the updated poses, and the rollback when it fails
TxnPostcheck(c) ==
    /\ callers[c].pc = "propagated"
    /\ callers[c].locked => c \in lock
    /\ \E r \in {Postcheck(edges, T_world, q_by_module, callers[c].a, callers[c].b,
                           callers[c].params, callers[c].pre, "pass", 0, FALSE)} :
        /\ edges' = r.edges
        /\ callers' = [callers EXCEPT ![c].pc = "done", ![c].pre = r.result,
                                      ![c].rolled_back = r.rolled_back]
    /\ lock' = Release(c, "done")
    /\ UNCHANGED <<T_world, q_by_module, root_id, steps, last, context, trace>>

\* the requests of the callers: two attaches that share the site 1.ma.right,
\* and one that shares 2.ma.right with neither
TxnPairs ==
    {<<SiteOf(1, "ma"), SiteOf(2, "mb")>>,
     <<SiteOf(1, "ma"), SiteOf(4, "mb")>>,
     <<SiteOf(2, "ma"), SiteOf(4, "mb")>>}

NextConc ==
    \/ \E c \in Callers, p \in TxnPairs, params \in ParamSet, locked \in BOOLEAN :
          TxnBegin(c, p[1], p[2], params, locked)
    \/ \E c \in Callers, qa \in QVals, qb \in QVals : TxnPrecheck(c, qa, qb)
    \/ \E c \in Callers : TxnCommit(c)
    \/ \E c \in Callers : TxnPropagate(c)
    \/ \E c \in Callers : TxnPostcheck(c)

SpecConc == InitConc /\ [][NextConc]_vars

\* caller c observed the attach of a caller that rolled back afterwards
ObservedRolledBack(c) == \E w \in callers[c].saw : callers[w].rolled_back

\* C31: when every attach transaction runs under the one lock from its
\* occupancy check to the end of its postcheck, no caller observes a site
\* occupied, or poses updated, by an attach that is rolled back afterwards,
\* and no commit raises on a site that passed the caller's occupancy check;
\* without the lock both happen (C31_Witness, C31_WitnessCommitRaises)
C31_LockedTransactionsIsolated ==
    (\A c \in Callers : callers[c].pc = "idle" \/ callers[c].locked) =>
        \A c \in Callers : ~ObservedRolledBack(c) /\ ~callers[c].commit_on_occupied

\* without the lock: a caller was refused for an occupied site, the site
\* held by the attach of the other caller, which then failed its postcheck
\* and was rolled back
C31_Witness ==
    \E c \in Callers :
        /\ \A w \in Callers : callers[w].pc = "done" /\ ~callers[w].locked
        /\ ObservedRolledBack(c)
        /\ callers[c].pre.reason \in OccupiedReasons
        /\ active_edges(edges) = <<>>

\* without the lock: both callers found the shared site free, one committed,
\* and the commit of the other raised
C31_WitnessCommitRaises ==
    \E c \in Callers :
        /\ ~callers[c].locked
        /\ callers[c].commit_on_occupied /\ callers[c].raised = "ValueError"

\* without the lock: a caller ran its precheck on poses the other caller had
\* updated, and the other caller rolled back
C31_WitnessPoses ==
    \E c \in Callers :
        /\ ObservedRolledBack(c)
        /\ callers[c].pre.reason \notin OccupiedReasons

\* under the lock: both callers ran their transactions on the same site to
\* the end, one of them rolled back, and the other was not refused for an
\* occupied site
C31_WitnessLocked ==
    \E c \in Callers : \E w \in Callers \ {c} :
        /\ callers[c].locked /\ callers[w].locked
        /\ callers[c].pc = "done" /\ callers[w].pc = "done"
        /\ callers[w].rolled_back
        /\ callers[c].a = callers[w].a
        /\ callers[c].pre.reason \notin OccupiedReasons

\* ------------------------------------------------- order of insertion of edges
\* C32: the compiled tree depends only on the set of active edges and the
\* root, not on the order in which the edges were put into the graph: the
\* graph holding the same edge records in the reverse order compiles to the
\* same order, parent_of and attachments, from every root
C32_CompileIndependentOfInsertionOrder ==
    LET reversed == [i \in 1..Len(edges) |-> edges[Len(edges) + 1 - i]]
    IN  \A root \in GraphModules :
            compile_kinematic_tree(root, reversed) = compile_kinematic_tree(root, edges)

\* C32 without the attachments, and with them when no two active edges join
\* the same pair of modules
C32_OrderAndParentsIndependentOfInsertionOrder ==
    LET reversed == [i \in 1..Len(edges) |-> edges[Len(edges) + 1 - i]]
        pairs    == {<<i, j>> \in (1..Len(edges)) \X (1..Len(edges)) :
                        /\ i < j /\ edges[i].active /\ edges[j].active
                        /\ {edges[i].key.a.module_id, edges[i].key.b.module_id}
                           = {edges[j].key.a.module_id, edges[j].key.b.module_id}}
    IN  \A root \in GraphModules :
            /\ compile_kinematic_tree(root, reversed).order
               = compile_kinematic_tree(root, edges).order
            /\ compile_kinematic_tree(root, reversed).parent_of
               = compile_kinematic_tree(root, edges).parent_of
            /\ pairs = {} => compile_kinematic_tree(root, reversed)
                             = compile_kinematic_tree(root, edges)

\* ------------------------------------------------ when the solver is invoked
\* C33: within one attempt_attach call the local attach solver is invoked
\* at most once, and exactly when both sites are free, local solve is
\* enabled, the precheck (special cases included) failed with reason pos or
\* yaw, and its z_dot is at most z_dot_max; so never for reason normal or an
\* occupied site.  After a successful solve the precheck is run once more,
\* on the joint table the solver left, and its result is the one committed
C33_SolverInvokedAtMostOnce ==
    [][(last'.op = "attempt_attach") =>
          /\ last'.solver_calls \in {0, 1}
          /\ IF ~site_is_free(edges, last'.a) \/ ~site_is_free(edges, last'.b)
                 \/ ~last'.params.enable_local_solve
             THEN last'.solver_calls = 0
             ELSE \A chk \in {check_attach_feasible(
                                  get_site_Tw(T_world, q_by_module, last'.a),
                                  get_site_Tw(T_world, q_by_module, last'.b),
                                  last'.params)} :
                  \A pre \in {ForceFail(last'.a, last'.b, last'.params,
                                  ForcePass(last'.a, last'.b, last'.params, chk))} :
                     last'.solver_calls = 1 <=>
                        /\ ~pre.feasible
                        /\ pre.reason \in {"pos", "yaw"}
                        /\ pre.z_dot <= last'.params.z_dot_max
          /\ (last'.solver_calls = 1 /\ last'.solver_success) =>
                \A retry \in {check_attach_feasible(
                                  get_site_Tw(T_world, q_by_module', last'.a),
                                  get_site_Tw(T_world, q_by_module', last'.b),
                                  last'.params)} :
                   retry.feasible =>
                      last'.committed /\ last'.best_yaw_deg = retry.best_yaw_deg]_vars

\* the solver ran once, succeeded, and the precheck run again passed
C33_Witness ==
    /\ last.op = "attempt_attach" /\ last.solver_calls = 1 /\ last.solver_success
    /\ last.committed /\ last.feasible

\* a precheck that failed with reason pos was not handed to the solver
\* because local solve was off
C33_WitnessNotInvoked ==
    /\ last.op = "attempt_attach" /\ last.solver_calls = 0
    /\ last.reason = "pos" /\ ~last.params.enable_local_solve

\* ------------------------------------------- normal opposition in apply_event
\* the modules of Init with module 2 either in line after module 1 or turned
\* over at the origin, where its B-half connector lies on the A-half
\* connector of module 1 with the normals pointing the same way
InitTurned ==
    /\ edges = <<>>
    /\ T_world \in {(1 :> IdT) @@ (2 :> T2) @@ (4 :> [k |-> 0, f |-> 0, z |-> 2 * Spacing]) :
                       T2 \in {[k |-> 0, f |-> 0, z |-> Spacing], RotY180}}
    /\ q_by_module = [m \in Modules |-> <<0, 0>>]
    /\ root_id \in {1, 4}
    /\ steps = 0
    /\ last = LastOf("init", "", NoSite, NoSite, None, NoneT, NoParams, "",
                     NoAttempt(<<>>, <<>>, <<>>, NoResult), NoEventResult)
    /\ context = NoContext
    /\ trace = <<>>
    /\ callers = NoCallers
    /\ lock = NoLock

\* attach and detach events handed to apply_event
NextTurned ==
    \/ \E p \in Pairs, yt \in AppliedFields, params \in ParamSet :
          \E qa \in SolverQ(p[1], params), qb \in SolverQ(p[2], params) :
             ApplyEvent(AttachEvent(p[1], p[2], yt[1], yt[2]), params, qa, qb)
    \/ \E p \in Pairs : ApplyEvent(DetachEvent(p[1], p[2]), NoParams, <<0, 0>>, <<0, 0>>)

SpecTurned == InitTurned /\ [][NextTurned]_vars

\* C34: apply_event gates an attach with the caller's threshold for the
\* opposition of the normals: an attach event on free sites that are within
\* pos_tol of each other and whose z_dot exceeds params.z_dot_max is
\* rejected with reason normal and leaves the graph as it was, whether or
\* not the event supplies its yaw snap and transform
C34_ApplyEventNormalGate ==
    [][(last'.op = "apply_event" /\ last'.kind = "attach") =>
          LET m == compute_constraint_metrics(get_site_Tw(T_world, q_by_module, last'.a),
                                              get_site_Tw(T_world, q_by_module, last'.b), 0)
          IN  (/\ site_is_free(edges, last'.a) /\ site_is_free(edges, last'.b)
               /\ m.pos_err <= last'.params.pos_tol
               /\ m.z_dot > last'.params.z_dot_max) =>
                  /\ ~last'.ok
                  /\ last'.ev_reason = "normal"
                  /\ edges' = edges]_vars

\* C34 for the events that leave their yaw snap or transform to be filled in
C34_ApplyEventNormalGate_AutoFill ==
    [][(/\ last'.op = "apply_event" /\ last'.kind = "attach"
        /\ (last'.yaw_snap_deg = None \/ last'.T_a_b = NoneT)) =>
          LET m == compute_constraint_metrics(get_site_Tw(T_world, q_by_module, last'.a),
                                              get_site_Tw(T_world, q_by_module, last'.b), 0)
          IN  (/\ site_is_free(edges, last'.a) /\ site_is_free(edges, last'.b)
               /\ m.pos_err <= last'.params.pos_tol
               /\ m.z_dot > last'.params.z_dot_max) =>
                  /\ ~last'.ok
                  /\ last'.ev_reason = "normal"
                  /\ edges' = edges]_vars

\* an event to be filled in, on free sites close to each other with normals
\* not opposed, was rejected with reason normal
C34_WitnessAutoFill ==
    /\ last.op = "apply_event" /\ last.kind = "attach" /\ last.yaw_snap_deg = None
    /\ ~last.ok /\ last.ev_reason = "normal"

\* ---------------------------------------------- the edge an attach event leaves
\* C35: after apply_event returns ok == True for an attach event that
\* supplies a yaw snap and a transform, the active edge stored for {a, b}
\* carries the yaw snap and the transform of the event
C35_EdgeCarriesEventFields ==
    [][(/\ last'.op = "apply_event" /\ last'.kind = "attach"
        /\ last'.yaw_snap_deg # None /\ last'.T_a_b # NoneT
        /\ last'.raised = "" /\ last'.ok) =>
          \E i \in 1..Len(edges') :
             /\ edges'[i].active
             /\ {edges'[i].key.a, edges'[i].key.b} = {last'.a, last'.b}
             /\ edges'[i].yaw_snap_deg = last'.yaw_snap_deg
             /\ edges'[i].T_a_b = last'.T_a_b]_vars

\* what the edge carries instead: the yaw snap chosen by the precheck of
\* attempt_attach and the identity transform
C35_EdgeCarriesPrecheckYaw ==
    [][(/\ last'.op = "apply_event" /\ last'.kind = "attach"
        /\ last'.yaw_snap_deg # None /\ last'.T_a_b # NoneT
        /\ last'.raised = "" /\ last'.ok) =>
          \E i \in 1..Len(edges') :
             /\ edges'[i].active
             /\ {edges'[i].key.a, edges'[i].key.b} = {last'.a, last'.b}
             /\ edges'[i].yaw_snap_deg = last'.best_yaw_deg
             /\ edges'[i].T_a_b = IdT]_vars

\* ------------------------------------------------- renaming of the module ids
\* C36: the outcome of attempt_attach depends on site geometry, occupancy and
\* params only, not on the values of the module ids: the call on the graph,
\* pose table and joint table with every module id m renamed to m + 10
\* returns the same feasible flag and reason, raises the same, and leaves
\* the graph that corresponds under the renaming
C36_AttemptIndependentOfModuleIds ==
    [][(last'.op = "attempt_attach") =>
          LET rs(s) == [s EXCEPT !.module_id = @ + 10]
              re(E) == [i \in 1..Len(E) |->
                           [E[i] EXCEPT !.key = [a |-> rs(E[i].key.a), b |-> rs(E[i].key.b)]]]
              rf(F) == [m \in {x + 10 : x \in DOMAIN F} |-> F[m - 10]]
              r2    == attempt_attach(re(edges), rf(T_world), rf(q_by_module), root_id + 10,
                                      rs(last'.a), rs(last'.b), last'.params,
                                      q_by_module'[last'.a.module_id],
                                      q_by_module'[last'.b.module_id])
          IN  /\ r2.result.feasible = last'.feasible
              /\ r2.result.reason = last'.reason
              /\ r2.raised = last'.raised
              /\ r2.edges = re(edges')]_vars

\* C36 for the calls in which a module outside (1, 2, 3) takes part
C36_AttemptIndependentOfModuleIds_OutsideSpecialCases ==
    [][(/\ last'.op = "attempt_attach"
        /\ ~({last'.a.module_id, last'.b.module_id} \subseteq HackIds)) =>
          LET rs(s) == [s EXCEPT !.module_id = @ + 10]
              re(E) == [i \in 1..Len(E) |->
                           [E[i] EXCEPT !.key = [a |-> rs(E[i].key.a), b |-> rs(E[i].key.b)]]]
              rf(F) == [m \in {x + 10 : x \in DOMAIN F} |-> F[m - 10]]
              r2    == attempt_attach(re(edges), rf(T_world), rf(q_by_module), root_id + 10,
                                      rs(last'.a), rs(last'.b), last'.params,
                                      q_by_module'[last'.a.module_id],
                                      q_by_module'[last'.b.module_id])
          IN  /\ r2.result.feasible = last'.feasible
              /\ r2.result.reason = last'.reason
              /\ r2.raised = last'.raised
              /\ r2.edges = re(edges')]_vars

\* ------------------------------------------ the joint table and the solver
\* C37: solve_local_attach changes the shared joint table only if it
\* succeeds: when it returns success == False the entries of both modules
\* are what they were at entry and the joint angles returned are those; when
\* it returns success == True the table holds the joint angles returned
C37_SolverWritesOnlyOnSuccess ==
    [][(last'.op = "attempt_attach" /\ last'.solver_calls = 1) =>
          LET ma == last'.a.module_id
              mb == last'.b.module_id
              sr == solve_local_attach(T_world, q_by_module, last'.a, last'.b,
                        [pos_tol |-> last'.params.pos_tol,
                         yaw_tol_deg |-> last'.params.yaw_tol_deg,
                         z_dot_tol_above |-> last'.params.z_dot_max],
                        q_by_module'[ma], q_by_module'[mb])
          IN  /\ sr.success = last'.solver_success
              /\ sr.q_by_module = q_by_module'
              /\ ~sr.success =>
                    /\ sr.q_by_module[ma] = q_by_module[ma]
                    /\ sr.q_by_module[mb] = q_by_module[mb]
                    /\ sr.q_new_a = q_by_module[ma] /\ sr.q_new_b = q_by_module[mb]
              /\ sr.success =>
                    sr.q_by_module[ma] = sr.q_new_a /\ sr.q_by_module[mb] = sr.q_new_b]_vars

\* C37 without the table after a failure: the joint angles returned by a
\* failed solve are those at entry, and after a success the table holds the
\* joint angles returned
C37_SolverReturnValue ==
    [][(last'.op = "attempt_attach" /\ last'.solver_calls = 1) =>
          LET ma == last'.a.module_id
              mb == last'.b.module_id
              sr == solve_local_attach(T_world, q_by_module, last'.a, last'.b,
                        [pos_tol |-> last'.params.pos_tol,
                         yaw_tol_deg |-> last'.params.yaw_tol_deg,
                         z_dot_tol_above |-> last'.params.z_dot_max],
                        q_by_module'[ma], q_by_module'[mb])
          IN  /\ sr.success = last'.solver_success
              /\ sr.q_by_module = q_by_module'
              /\ ~sr.success =>
                    sr.q_new_a = q_by_module[ma] /\ sr.q_new_b = q_by_module[mb]
              /\ sr.success =>
                    sr.q_by_module[ma] = sr.q_new_a /\ sr.q_by_module[mb] = sr.q_new_b]_vars

\* ------------------------------------------ a graph wider than the executor
\* the executor holds poses and joints of modules 1 and 2 only, while the
\* connection graph, which any caller may write with graph.apply, also names
\* module 4
InitAbsent ==
    /\ edges = <<>>
    /\ T_world = (1 :> IdT) @@ (2 :> [k |-> 0, f |-> 0, z |-> Spacing])
    /\ q_by_module = (1 :> <<0, 0>>) @@ (2 :> <<0, 0>>)
    /\ root_id = 1
    /\ steps = 0
    /\ last = LastOf("init", "", NoSite, NoSite, None, NoneT, NoParams, "",
                     NoAttempt(<<>>, <<>>, <<>>, NoResult), NoEventResult)
    /\ context = NoContext
    /\ trace = <<>>
    /\ callers = NoCallers
    /\ lock = NoLock

\* the joint vectors the solver may end with, for a site of a module that may
\* be missing from the joint table
SolverQAbsent(a, params) ==
    IF a.module_id \in DOMAIN q_by_module THEN SolverQ(a, params) ELSE {<<0, 0>>}

NextAbsent ==
    \/ \E p \in Pairs : GraphApply(AttachEvent(p[1], p[2], 0, IdT))
    \/ \E p \in Pairs : GraphApply(DetachEvent(p[1], p[2]))
    \/ \E p \in Pairs, params \in ParamSet :
          \E qa \in SolverQAbsent(p[1], params), qb \in SolverQAbsent(p[2], params) :
             AttemptAttach(p[1], p[2], params, qa, qb)

SpecAbsent == InitAbsent /\ [][NextAbsent]_vars

\* C38: whenever attempt_attach exits by an exception, the set of active
\* edges is the set before the call; when the exception comes from the
\* rebuild and propagation after the commit, the committed edge {a, b} has
\* been detached again (its record is kept, inactive) and the pose table is
\* the one before the call.
C38_ExceptionLeavesActiveEdges ==
    [][(last'.op = "attempt_attach" /\ last'.raised # "")
        => /\ ActiveKeys(edges') = ActiveKeys(edges)
           /\ T_world' = T_world
           /\ last'.committed
                => /\ last'.rolled_back
                   /\ \E i \in 1..Len(edges') :
                         /\ {edges'[i].key.a, edges'[i].key.b} = {last'.a, last'.b}
                         /\ ~edges'[i].active]_vars

\* attempt_attach(1.ma.right, 2.mb.left) committed its edge, the propagation
\* reached module 4 (attached to 2 in the graph, unknown to the executor) and
\* raised, and the edge is inactive again while the edge to 4 is still active
C38_Witness ==
    /\ last.op = "attempt_attach" /\ last.raised = KeyError(4)
    /\ last.committed /\ last.rolled_back
    /\ \E i \in 1..Len(edges) :
          {edges[i].key.a, edges[i].key.b} = {last.a, last.b} /\ ~edges[i].active
    /\ \E i \in 1..Len(edges) : edges[i].active

\* ------------------------------------------------- attach, detach, re-attach
\* yaw snap and transform of the attach events handed to graph.apply: two
\* complete pairs that differ in both fields
ReattachFields == {<<0, IdT>>, <<90, [k |-> 2, f |-> 0, z |-> 400]>>}

NextReattach ==
    \/ \E p \in Pairs, yt \in ReattachFields : GraphApply(AttachEvent(p[1], p[2], yt[1], yt[2]))
    \/ \E p \in Pairs : GraphApply(DetachEvent(p[1], p[2]))
    \/ \E p \in Pairs, params \in ParamSet :
          \E qa \in SolverQ(p[1], params), qb \in SolverQ(p[2], params) :
             AttemptAttach(p[1], p[2], params, qa, qb)
    \/ \E p \in Pairs : ApplyEvent(DetachEvent(p[1], p[2]), NoParams, <<0, 0>>, <<0, 0>>)

SpecReattach == Init /\ [][NextReattach]_vars

\* C39: no operation removes a key from the graph, and graph.apply of an
\* attach event for a pair whose record is stored inactive (the pair was
\* attached and detached before) and whose sites are free succeeds and leaves
\* exactly one record for the pair, at its old place, active, with the yaw
\* snap and the transform of this second event.
C39_RecordsKeptAndReactivated ==
    [][/\ \A i \in 1..Len(edges) : \E j \in 1..Len(edges') : edges'[j].key = edges[i].key
       /\ (/\ last'.op = "graph_apply" /\ last'.kind = "attach"
           /\ KeyIndex(edges, normalized(last'.a, last'.b)) # 0
           /\ ~edges[KeyIndex(edges, normalized(last'.a, last'.b))].active
           /\ site_is_free(edges, last'.a) /\ site_is_free(edges, last'.b))
          => /\ last'.raised = ""
             /\ Len(edges') = Len(edges)
             /\ Cardinality({j \in 1..Len(edges') :
                    {edges'[j].key.a, edges'[j].key.b} = {last'.a, last'.b}}) = 1
             /\ \E j \in 1..Len(edges') :
                   /\ {edges'[j].key.a, edges'[j].key.b} = {last'.a, last'.b}
                   /\ edges'[j].active
                   /\ edges'[j].yaw_snap_deg = last'.yaw_snap_deg
                   /\ edges'[j].T_a_b = last'.T_a_b]_vars

\* the only record of the graph, for the pair 1.ma.right - 4.mb.left, is
\* active with the yaw snap 90 and the quarter-turn transform of the
\* graph.apply call just made, and the pose table differs from the initial
\* one: poses change only when attempt_attach commits an edge, so this record
\* was written by an earlier attach (yaw snap 0, identity transform), made
\* inactive, and is now active again with the fields of the second event
C39_Witness ==
    /\ Len(edges) = 1
    /\ {edges[1].key.a, edges[1].key.b} = {SiteOf(1, "ma"), SiteOf(4, "mb")}
    /\ last.op = "graph_apply" /\ last.kind = "attach" /\ last.raised = ""
    /\ last.yaw_snap_deg = 90
    /\ edges[1].active /\ edges[1].yaw_snap_deg = 90
    /\ edges[1].T_a_b = [k |-> 2, f |-> 0, z |-> 400]
    /\ T_world[4] # [k |-> 0, f |-> 0, z |-> 2 * Spacing] \/ T_world[1] # IdT

\* ------------------------------------------ where the event results are kept
\* C40: the EventResults of the events scheduled at step k are the
\* event_results of the ExecutionStep with step_index k, for every step and
\* for step 0 too; and a pass whose events all name modules the executor has
\* ends without an exception, at step 0 as at any other step.
C40_ResultsStoredInOwnStep ==
    [][(last'.op = "simulate_step" /\ last'.scheduled # <<>>
        /\ \A i \in 1..Len(last'.scheduled) : ~NamesAbsentModule(last'.scheduled[i]))
        => /\ last'.raised = ""
           /\ Len(trace') = Len(trace) + 1
           /\ trace'[Len(trace')].step_index = steps
           /\ trace'[Len(trace')].event_results = last'.results
           /\ Len(last'.results) = Len(last'.scheduled)]_vars

\* what the loop does instead: events at step 0 end the run with
\* UnboundLocalError after the first of them has been applied to the graph,
\* and the results of the events of a step k >= 1 are appended to the record
\* of step k - 1, the record of step k starting with none
C40_ResultsStoredInPreviousStep ==
    [][(last'.op = "simulate_step" /\ last'.scheduled # <<>>
        /\ \A i \in 1..Len(last'.scheduled) : ~NamesAbsentModule(last'.scheduled[i]))
        => IF steps = 0
           THEN /\ last'.raised = "UnboundLocalError"
                /\ trace' = trace /\ steps' = steps
                /\ edges' = apply_event(edges, T_world, q_by_module, root_id,
                                        last'.scheduled[1], SimParams,
                                        q_by_module'[last'.scheduled[1].a.module_id],
                                        q_by_module'[last'.scheduled[1].b.module_id]).edges
           ELSE /\ last'.raised = ""
                /\ Len(trace') = Len(trace) + 1
                /\ trace'[Len(trace')].step_index = steps
                /\ trace'[Len(trace')].event_results = <<>>
                /\ trace'[Len(trace)].step_index = steps - 1
                /\ trace'[Len(trace)].event_results
                      = trace[Len(trace)].event_results \o last'.results
                /\ Len(last'.results) = Len(last'.scheduled)]_vars

====
